---- MODULE Spec2Model ----
(***************************************************************************)
(* Model of the query-result-to-chart pipeline of the reporting front end  *)
(* (src/src/App.jsx buildChartData and its copies in ReportsView.jsx and   *)
(* the useCharts hook).                                                     *)
(*                                                                          *)
(* The chart state of the App component is the state; its event handlers   *)
(* are the actions, each followed by the re-render that calls              *)
(* buildChartData.  Spec is that state machine; SpecSaved loads a saved    *)
(* result under a stored chart configuration; SpecResolver exercises       *)
(* resolveFieldValue alone; SpecUnnamed loads results that have a column   *)
(* with an empty name; SpecFormat exercises formatValue alone; SpecConfig  *)
(* adds editing and saving of the chart configuration; SpecSchedule is the *)
(* ScheduleModal component with the server's schedules; SpecRender calls   *)
(* ReportChart on chart specifications; SpecOptions loads saved results    *)
(* under stored display options; SpecRefresh adds refreshReports, from its *)
(* call to the arrival of the server's answer; SpecAuth is the session     *)
(* handling of App.jsx and auth.js (SpecAuthFair with the interval timer   *)
(* firing); SpecNet is request() of api.js with refreshToken() of auth.js  *)
(* (SpecNetFair with every await of call 1 settling).  The chart preview   *)
(* (ReportChart) is computed at every render.                              *)
(*                                                                          *)
(* Conventions.  A JavaScript string is a sequence of one-character        *)
(* strings, so that toLowerCase, the whitespace/underscore stripping,      *)
(* parseFloat and String() are computed character by character.  A cell    *)
(* value is a tagged record (null, undefined, number, string).  A row      *)
(* object is the sequence of its own [k, v] properties in Object.keys      *)
(* order.  Numbers are integers, and text cells hold signs, digits, blanks *)
(* and letters (no fractions or exponents).  Column names are non-empty    *)
(* strings except in SpecUnnamed.  The per-report maps of the component    *)
(* state are modelled for one report id.                                   *)
(***************************************************************************)
EXTENDS Integers, Sequences, FiniteSets, TLC

VARIABLES
    queryResults,          \* queryResults[reportId]: NoResult or [columns, rows]
    savedResults,          \* the result the server holds for the report
    chartFieldSelection,   \* chartFieldSelection[reportId]: [present, entries: seq of [col, on]]
    chartTypeSelection,    \* chartTypeSelection[reportId]: "" (unset) or a type
    chartAxisLabels,       \* chartAxisLabels[reportId]: [x, y]
    chartDisplayOptions,   \* chartDisplayOptions[reportId]: sequence of [k, v]
    seriesFormats,         \* seriesFormats[reportId]: field -> format ("" = none)
    seriesDisplayNames,    \* seriesDisplayNames[reportId]: field -> name (<<>> = none)
    chartData,             \* what buildChartData returned at the last render
    detected,              \* its locals: categoryField, valueFields, isNumeric flags
    detectedFirstRow,      \* the same locals in the ReportsView / useCharts copy
    rendered,              \* what the chart preview showed for chartData
    resRow, resField,      \* the arguments of one call of resolveFieldValue
    resCalled, resValue,   \* whether it has returned, and what
    fmtVal, fmtFmt,        \* the arguments of one call of formatValue
    fmtCalled, fmtOut,     \* whether it has returned, and what
    storedChartConfig,     \* the report's chartConfig in the store (server)
    reportChartConfig,     \* reportChartConfig[reportId], the local copy of it
    editingReportId,       \* whether the report is being edited
    schedules,             \* ScheduleModal: the schedules the list shows
    serverSchedules,       \* the schedules of the report on the server
    nextScheduleId,        \* the id the server gives the next schedule
    view,                  \* 'list', 'create' or 'edit'
    selectedSchedule,      \* the schedule being edited, or NoSchedule (null)
    confirmDeleteId,       \* the id whose deletion is armed, or 0 (null)
    formData,              \* the form state: [recipients]
    loadError,             \* whether the load error message is set
    event,                 \* what the last handler of ScheduleModal did
    refreshPending,        \* a refreshReports call is waiting for getReports
    refreshSnapshot,       \* the chart state in the closure of that call
    localStorage,          \* window.localStorage: key -> value, NULL when absent
    role,                  \* App state role (null shows the login form)
    roles,                 \* App state roles
    actingRole,            \* App state actingRole
    now,                   \* Date.now(), in units of SkewSeconds
    appMounted,            \* the mount effect of App has run
    intervalInstalled,     \* setInterval(maybeExpire, 60_000) was reached
    mountSession,          \* the session found at mount, while it lasts: [role]
    authEvent,             \* the last auth handler that ran
    DEV,                   \* import.meta.env.DEV
    refreshing,            \* auth.js 'refreshing': 0 (null) or the id of a promise
    refreshPromises,       \* the promises refreshToken created: [settled, value, fetched]
    calls                  \* the calls of request(): [pc, path, attempt, ...]

chartVars == <<queryResults, savedResults, chartFieldSelection, chartTypeSelection,
               chartAxisLabels, chartDisplayOptions, seriesFormats,
               seriesDisplayNames, chartData, detected, detectedFirstRow,
               rendered>>
resolverVars == <<resRow, resField, resCalled, resValue>>
formatVars == <<fmtVal, fmtFmt, fmtCalled, fmtOut>>
storeVars == <<storedChartConfig, reportChartConfig, editingReportId>>
scheduleVars == <<schedules, serverSchedules, nextScheduleId, view,
                  selectedSchedule, confirmDeleteId, formData, loadError, event>>
refreshVars == <<refreshPending, refreshSnapshot>>
authVars == <<localStorage, role, roles, actingRole, now, appMounted,
              intervalInstalled, mountSession, authEvent>>
netVars == <<DEV, refreshing, refreshPromises, calls>>
extraVars == <<refreshVars, authVars, netVars>>
otherVars == <<resolverVars, formatVars, storeVars, scheduleVars, extraVars>>
vars == <<chartVars, otherVars>>

----------------------------------------------------------------------------
(* Bounds of the model *)

MaxRows == 4
MaxKeys == 3
MaxDecimals == 3
MaxSchedules == 2
MaxRecipients == 2
MaxPoints == 2

----------------------------------------------------------------------------
(* JavaScript values *)

NULL == [t |-> "null"]
UNDEF == [t |-> "undefined"]
Num(n) == [t |-> "number", n |-> n]
Str(s) == [t |-> "string", s |-> s]
NaN == [nan |-> TRUE, n |-> 0]
Fin(n) == [nan |-> FALSE, n |-> n]

UpperChars == <<"A","B","C","D","E","F","G","H","I","J","K","L","M",
                "N","O","P","Q","R","S","T","U","V","W","X","Y","Z">>
LowerChars == <<"a","b","c","d","e","f","g","h","i","j","k","l","m",
                "n","o","p","q","r","s","t","u","v","w","x","y","z">>
DigitChars == <<"0","1","2","3","4","5","6","7","8","9">>

DigitOf == [c \in {DigitChars[i] : i \in 1..10} |->
               (CHOOSE i \in 1..10 : DigitChars[i] = c) - 1]
IsDigit(c) == c \in DOMAIN DigitOf
DigitVal(c) == DigitOf[c]

LowerOf == [c \in {UpperChars[i] : i \in 1..26} |->
               LowerChars[CHOOSE i \in 1..26 : UpperChars[i] = c]]
toLowerChar(c) == IF c \in DOMAIN LowerOf THEN LowerOf[c] ELSE c

toLowerCase(s) == [i \in 1..Len(s) |-> toLowerChar(s[i])]

IsSpaceOrUnderscore(c) == c \in {" ", "_"}
KeepChar(c) == ~IsSpaceOrUnderscore(c)

\* (key ?? '').toString().toLowerCase().replace(/[\s_]/g, '')
normalizeKey(key) == SelectSeq(toLowerCase(key), KeepChar)

\* Array.prototype.find over Object.keys(row): the first index among the
\* matching ones, 0 when there is none.
FindIndex(hits) ==
    IF hits = {} THEN 0 ELSE CHOOSE i \in hits : \A j \in hits : i <= j

NoRow == <<[k |-> <<"#">>, v |-> [t |-> "norow"]]>>
IsRow(row) == row # NoRow

\* Faulty variant: the normalised match is tried before the case-insensitive one.
NormalizedBeforeLower(row, field) ==
    IF ~IsRow(row) \/ field = <<>> THEN UNDEF
    ELSE LET ex == FindIndex({i \in 1..Len(row) : row[i].k = field})
             nm == FindIndex({i \in 1..Len(row) : normalizeKey(row[i].k) = normalizeKey(field)})
             lo == FindIndex({i \in 1..Len(row) : toLowerCase(row[i].k) = toLowerCase(field)})
         IN IF ex # 0 THEN row[ex].v
            ELSE IF nm # 0 /\ row[nm].k # <<>> THEN row[nm].v
            ELSE IF lo # 0 /\ row[lo].k # <<>> THEN row[lo].v
            ELSE UNDEF

\* resolveFieldValue(row, field): exact own key, then case-insensitive key,
\* then normalised key; a found key that is the empty string is falsy and
\* falls through.
resolveFieldValue(row, field) ==
    IF ~IsRow(row) \/ field = <<>> THEN UNDEF
    ELSE LET ex == FindIndex({i \in 1..Len(row) : row[i].k = field})
             lo == FindIndex({i \in 1..Len(row) : toLowerCase(row[i].k) = toLowerCase(field)})
             nm == FindIndex({i \in 1..Len(row) : normalizeKey(row[i].k) = normalizeKey(field)})
         IN IF ex # 0 THEN row[ex].v
            ELSE IF lo # 0 /\ row[lo].k # <<>> THEN row[lo].v
            ELSE IF nm # 0 /\ row[nm].k # <<>> THEN row[nm].v
            ELSE UNDEF

----------------------------------------------------------------------------
(* parseFloat, typeof, String() *)

RECURSIVE SkipSpaces(_, _)
SkipSpaces(s, i) ==
    IF i <= Len(s) /\ s[i] = " " THEN SkipSpaces(s, i + 1) ELSE i

RECURSIVE DigitRunEnd(_, _)
DigitRunEnd(s, i) ==
    IF i <= Len(s) /\ IsDigit(s[i]) THEN DigitRunEnd(s, i + 1) ELSE i

RECURSIVE DigitsValue(_, _, _)
DigitsValue(s, i, j) ==
    IF i >= j THEN 0
    ELSE DigitsValue(s, i, j - 1) * 10 + DigitVal(s[j - 1])

\* parseFloat of a string: leading white space is skipped, an optional sign
\* and the longest run of digits are read; no digit at all gives NaN.
parseFloatStr(s) ==
    LET a == SkipSpaces(s, 1)
        neg == a <= Len(s) /\ s[a] = "-"
        b == IF a <= Len(s) /\ s[a] \in {"-", "+"} THEN a + 1 ELSE a
        e == DigitRunEnd(s, b)
    IN IF e = b THEN NaN
       ELSE Fin(IF neg THEN 0 - DigitsValue(s, b, e) ELSE DigitsValue(s, b, e))

\* parseFloat(value): the argument is first converted to a string
\* ("null", "undefined" and a number's own digits).
parseFloat(v) ==
    CASE v.t = "number" -> Fin(v.n)
      [] v.t = "string" -> parseFloatStr(v.s)
      [] OTHER -> NaN

RECURSIVE NatToStr(_)
NatToStr(n) ==
    IF n < 10 THEN <<DigitChars[n + 1]>>
    ELSE Append(NatToStr(n \div 10), DigitChars[(n % 10) + 1])

\* String(value ?? '')
StringOrEmpty(v) ==
    CASE v.t = "number" -> IF v.n < 0 THEN <<"-">> \o NatToStr(0 - v.n) ELSE NatToStr(v.n)
      [] v.t = "string" -> v.s
      [] OTHER -> <<>>

IsNullish(v) == v.t \in {"null", "undefined"}

\* typeof value === 'number' || !isNaN(parseFloat(value))
LooksNumeric(v) == v.t = "number" \/ ~parseFloat(v).nan

\* Faulty variant of the coercion below: a non-number is 0.
ZeroForString(v) == IF v.t = "number" THEN v.n ELSE 0

\* typeof val === 'number' ? val : parseFloat(val) || 0
toSeriesNumber(v) ==
    IF v.t = "number" THEN v.n
    ELSE LET p == parseFloat(v) IN IF p.nan \/ p.n = 0 THEN 0 ELSE p.n

----------------------------------------------------------------------------
(* Objects used as maps: a TLA+ function whose domain is the set of own keys *)

EmptyMap == <<>>
Get(map, k, default) == IF k \in DOMAIN map THEN map[k] ELSE default
Put(map, k, v) == [x \in (DOMAIN map) \cup {k} |-> IF x = k THEN v ELSE map[x]]

Min(a, b) == IF a < b THEN a ELSE b
SetMax(S) == CHOOSE x \in S : \A y \in S : y <= x
SetMin(S) == CHOOSE x \in S : \A y \in S : x <= y
Range(seq) == {seq[i] : i \in 1..Len(seq)}

----------------------------------------------------------------------------
(* buildChartData *)

NoResult == [data |-> FALSE]
Result(columns, rows) == [data |-> TRUE, columns |-> columns, rows |-> rows]
NoChart == [type |-> "null"]
NoField == [set |-> FALSE, name |-> <<>>]
Field(f) == [set |-> TRUE, name |-> f]
\* !categoryField: null and the empty string are both falsy
Falsy(cf) == ~cf.set \/ cf.name = <<>>

\* Object.entries(chartFieldSelection[reportId] || {}).filter(([_, v]) => v).map(([col]) => col)
RECURSIVE selectedFields(_)
selectedFields(sel) ==
    IF sel = <<>> THEN <<>>
    ELSE IF sel[1].on THEN <<sel[1].col>> \o selectedFields(Tail(sel))
    ELSE selectedFields(Tail(sel))

\* Math.min(3, rows.length) in the App.jsx classifier
SampleRows == 3

\* Faulty variant of the App.jsx loop: only rows[0] is examined.
isNumericFirstRowOnly(rows, field) ==
    LooksNumeric(resolveFieldValue(IF Len(rows) > 0 THEN rows[1] ELSE NoRow, field))

\* The inner loop of the App.jsx classifier: the first min(3, rows.length)
\* rows are examined; a non-null value that is a number or parses sets the flag.
isNumericApp(rows, field) ==
    \E i \in 1..Min(SampleRows, Len(rows)) :
        LET value == resolveFieldValue(rows[i], field)
        IN ~IsNullish(value) /\ LooksNumeric(value)

\* The ReportsView / useCharts / series-panel classifier: rows[0] only.
isNumericFirstRow(rows, field) ==
    LooksNumeric(resolveFieldValue(IF Len(rows) > 0 THEN rows[1] ELSE NoRow, field))

LoopStart == [categoryField |-> NoField, valueFields |-> <<>>, numeric |-> <<>>]

\* Faulty variant: the category field is pushed to valueFields as well.
StepCategoryAlsoValue(acc, field, isNumeric) ==
    IF ~isNumeric /\ Falsy(acc.categoryField)
    THEN [acc EXCEPT !.categoryField = Field(field),
                     !.valueFields = Append(@, field),
                     !.numeric = Append(@, isNumeric)]
    ELSE [acc EXCEPT !.valueFields = Append(@, field), !.numeric = Append(@, isNumeric)]

\* Faulty variant: every non-numeric field overwrites categoryField.
StepAllNonNumericToCategory(acc, field, isNumeric) ==
    IF ~isNumeric
    THEN [acc EXCEPT !.categoryField = Field(field), !.numeric = Append(@, isNumeric)]
    ELSE [acc EXCEPT !.valueFields = Append(@, field), !.numeric = Append(@, isNumeric)]

\* One iteration of "for (const field of selected)".
LoopStep(acc, field, isNumeric) ==
    IF ~isNumeric /\ Falsy(acc.categoryField)
    THEN [acc EXCEPT !.categoryField = Field(field), !.numeric = Append(@, isNumeric)]
    ELSE [acc EXCEPT !.valueFields = Append(@, field), !.numeric = Append(@, isNumeric)]

RECURSIVE DetectLoop(_, _, _, _)
DetectLoop(selected, rows, app, i) ==
    IF i = 0 THEN LoopStart
    ELSE LoopStep(DetectLoop(selected, rows, app, i - 1), selected[i],
                  IF app THEN isNumericApp(rows, selected[i])
                  ELSE isNumericFirstRow(rows, selected[i]))

\* Faulty variant: the fallback does not reset valueFields to selected.slice(1).
FallbackKeepsLoopValueFields(d, selected) ==
    IF Falsy(d.categoryField) /\ Len(selected) > 0
    THEN [d EXCEPT !.categoryField = Field(selected[1])] @@ [fallback |-> TRUE]
    ELSE d @@ [fallback |-> FALSE]

\* "Fallback: if all fields are numeric, use first as category"
Fallback(d, selected) ==
    IF Falsy(d.categoryField) /\ Len(selected) > 0
    THEN [d EXCEPT !.categoryField = Field(selected[1]),
                   !.valueFields = Tail(selected)] @@ [fallback |-> TRUE]
    ELSE d @@ [fallback |-> FALSE]

\* categoryField / valueFields as buildChartData computes them
\* (app = TRUE: App.jsx; app = FALSE: ReportsView.jsx and useCharts).
DetectFields(selected, rows, app) ==
    Fallback(DetectLoop(selected, rows, app, Len(selected)), selected)

NotDetected == [categoryField |-> NoField, valueFields |-> <<>>,
                numeric |-> <<>>, fallback |-> FALSE]

\* Faulty variant: rows without a category value are dropped from the labels.
CategoriesDropNullRows(rows, categoryField) ==
    LET vals == [i \in 1..Len(rows) |-> resolveFieldValue(rows[i], categoryField)]
        keep(v) == ~IsNullish(v)
        nn == SelectSeq(vals, keep)
    IN [i \in 1..Len(nn) |-> StringOrEmpty(nn[i])]

\* rows.map(row => String(resolveFieldValue(row, categoryField) ?? ''))
Categories(rows, categoryField) ==
    [i \in 1..Len(rows) |-> StringOrEmpty(resolveFieldValue(rows[i], categoryField))]

\* Faulty variant: text cells are never parsed.
SeriesDataStringsToZero(rows, field) ==
    [i \in 1..Len(rows) |-> ZeroForString(resolveFieldValue(rows[i], field))]

\* rows.map(row => { const val = resolveFieldValue(row, field); return ... })
SeriesData(rows, field) ==
    [i \in 1..Len(rows) |-> toSeriesNumber(resolveFieldValue(rows[i], field))]

\* Faulty variant: the override is ignored.
RawFieldName(names, field) == field

\* seriesDisplayNames[reportId]?.[field] || field
DisplayName(names, field) ==
    LET n == Get(names, field, <<>>) IN IF n = <<>> THEN field ELSE n

\* valueFields.map(field => ({ name: displayName, originalName: field, data }))
BuildSeries(rows, valueFields, names) ==
    [i \in 1..Len(valueFields) |->
        [name |-> DisplayName(names, valueFields[i]),
         originalName |-> valueFields[i],
         data |-> SeriesData(rows, valueFields[i])]]

\* Math.max(...s.data, 0)
SeriesMax(data) == SetMax(Range(data) \cup {0})

\* The fixed 20x threshold of "bigMax > minMax * 20"
ScaleRatio == 20

\* Faulty variant: >= in place of > in the threshold test.
SeparateScaleAtLeastRatio(series) ==
    /\ Len(series) > 1
    /\ LET maxVals == {SeriesMax(series[i].data) : i \in 1..Len(series)}
           positive == {v \in maxVals : v > 0}
       IN /\ positive # {}
          /\ SetMax(maxVals) >= SetMin(positive) * ScaleRatio

\* useSeparateScale: Math.min() of no positive maximum is Infinity, which
\* no bigMax exceeds.
SeparateScale(series) ==
    /\ Len(series) > 1
    /\ LET maxVals == {SeriesMax(series[i].data) : i \in 1..Len(series)}
           positive == {v \in maxVals : v > 0}
       IN /\ positive # {}
          /\ SetMax(maxVals) > SetMin(positive) * ScaleRatio

\* series.forEach(s => { if (seriesFormats[reportId]?.[originalName])
\*                         formatsMap[s.name] = seriesFormats[reportId][originalName] })
RECURSIVE FormatsMap(_, _, _)
FormatsMap(series, formats, i) ==
    IF i = 0 THEN EmptyMap
    ELSE LET prev == FormatsMap(series, formats, i - 1)
             s == series[i]
             originalName == IF s.originalName # <<>> THEN s.originalName ELSE s.name
             fmt == Get(formats, originalName, "")
         IN IF fmt # "" THEN Put(prev, s.name, fmt) ELSE prev

ChartTypeOrBar(t) == IF t = "" THEN "bar" ELSE t

\* Faulty variant: the rows are cut down to the selected columns.
TableWithSelectedCells(selected, rows) ==
    [type |-> "table", columns |-> selected,
     rows |-> [i \in 1..Len(rows) |->
                 [j \in 1..Len(selected) |->
                    [k |-> selected[j], v |-> resolveFieldValue(rows[i], selected[j])]]]]

\* return { type: 'table', columns: selected, rows }
TableSpec(selected, rows) == [type |-> "table", columns |-> selected, rows |-> rows]

\* Faulty variant: { useSeparateScale, ...chartDisplayOptions[reportId] },
\* a stored useSeparateScale wins over the derived one.
ChartSpecStoredScaleWins(type, rows, d, names, formats, labels, options) ==
    LET series == BuildSeries(rows, d.valueFields, names)
    IN [type |-> type,
        categories |-> Categories(rows, d.categoryField.name),
        series |-> series,
        xLabel |-> Get(labels, "x", ""),
        yLabel |-> Get(labels, "y", ""),
        seriesFormats |-> FormatsMap(series, formats, Len(series)),
        displayOptions |-> IF "useSeparateScale" \in DOMAIN options THEN options
                           ELSE Put(options, "useSeparateScale", SeparateScale(series))]

\* The object returned for bar, line and pie.
ChartSpec(type, rows, d, names, formats, labels, options) ==
    LET series == BuildSeries(rows, d.valueFields, names)
    IN [type |-> type,
        categories |-> Categories(rows, d.categoryField.name),
        series |-> series,
        xLabel |-> Get(labels, "x", ""),
        yLabel |-> Get(labels, "y", ""),
        seriesFormats |-> FormatsMap(series, formats, Len(series)),
        displayOptions |-> Put(options, "useSeparateScale", SeparateScale(series))]

\* buildChartData(reportId), with the component state passed in.
buildChartData(result, sel, type, names, formats, labels, options, app) ==
    IF ~result.data THEN NoChart
    ELSE LET selected == selectedFields(sel.entries)
             d == DetectFields(selected, result.rows, app)
         IN IF Len(selected) = 0 THEN NoChart
            ELSE IF ChartTypeOrBar(type) = "table" THEN TableSpec(selected, result.rows)
            ELSE IF Falsy(d.categoryField) THEN NoChart
            ELSE ChartSpec(ChartTypeOrBar(type), result.rows, d, names, formats,
                           labels, options)

\* The locals categoryField / valueFields of the same call (NotDetected
\* when the call returns before the classifier runs).
detectedBy(result, sel, type, app) ==
    IF ~result.data THEN NotDetected
    ELSE LET selected == selectedFields(sel.entries)
         IN IF Len(selected) = 0 \/ ChartTypeOrBar(type) = "table" THEN NotDetected
            ELSE DetectFields(selected, result.rows, app)

----------------------------------------------------------------------------
(* ReportChart, the renderer of the chart preview *)

Max(a, b) == IF a > b THEN a ELSE b
RECURSIVE SumSeq(_)
SumSeq(seq) == IF seq = <<>> THEN 0 ELSE seq[1] + SumSeq(Tail(seq))
Abs(n) == IF n < 0 THEN 0 - n ELSE n

\* A row object is a sequence of [k, v] properties; only an array of cells
\* has a map method.
IsArrayRow(row) == row # <<>> /\ \A i \in 1..Len(row) : "k" \notin DOMAIN row[i]

NothingRendered == [kind |-> "empty"]
RenderError == [kind |-> "error", error |-> "TypeError: row.map is not a function"]

\* if (data.type === 'table'): <th> per column, data.rows.map(row => row.map(cell => <td>))
RenderTable(data) ==
    IF \E i \in 1..Len(data.rows) : ~IsArrayRow(data.rows[i])
    THEN RenderError
    ELSE [kind |-> "table", header |-> data.columns, body |-> data.rows]

\* Faulty variant: the maximum of a series is not floored to 1.
seriesMaxValueUnfloored(data) ==
    IF Len(data) > 0 THEN SetMax(Range(data)) ELSE 0

\* Math.max(1, nums.length ? Math.max(...nums) : 0)
seriesMaxValue(data) ==
    Max(1, IF Len(data) > 0 THEN SetMax(Range(data)) ELSE 0)
seriesMaxValues(series) ==
    [si \in 1..Len(series) |-> seriesMaxValue(series[si].data)]
\* Math.max(1, ...seriesMaxValues, 1)
sharedMax(series) == SetMax(Range(seriesMaxValues(series)) \cup {1})
\* seriesMaxValues.length ? Math.max(1, Math.min(...seriesMaxValues)) : 1
minSeriesMax(series) ==
    IF Len(series) > 0 THEN Max(1, SetMin(Range(seriesMaxValues(series)))) ELSE 1

\* The threshold of "sharedMax / minSeriesMax > 20" in the renderer
RendererScaleRatio == 20

\* const useSeparateScale = sharedMax / minSeriesMax > 20 (positive integers)
useSeparateScale(series) ==
    sharedMax(series) > RendererScaleRatio * minSeriesMax(series)

\* const denom = useSeparateScale ? (seriesMaxValues[si] || 1) : sharedMax
denom(series, si) ==
    IF useSeparateScale(series)
    THEN (IF seriesMaxValues(series)[si] = 0 THEN 1 ELSE seriesMaxValues(series)[si])
    ELSE sharedMax(series)

\* const val = Number(s.data[idx]); numVal = Number.isFinite(val) ? val : 0
numVal(s, idx) == IF idx <= Len(s.data) THEN s.data[idx] ELSE 0

\* height = (numVal / denom) * 100, kept as the fraction numVal / denom
RenderBar(data) ==
    [kind |-> "bar",
     useSeparateScale |-> useSeparateScale(data.series),
     denom |-> [si \in 1..Len(data.series) |-> denom(data.series, si)],
     bars |-> [idx \in 1..Len(data.categories) |->
                 [si \in 1..Len(data.series) |->
                    [numVal |-> numVal(data.series[si], idx),
                     denom |-> denom(data.series, si)]]]]

\* Sparkline: const max = Math.max(1, ...nums)
sparklineMax(data) == SetMax(Range(data) \cup {1})

\* y = 100 - (v / max) * 100 for every point, kept as v and max
Sparkline(data) == [max |-> sparklineMax(data), points |-> data]

RenderLine(data) ==
    [kind |-> "line",
     lines |-> [si \in 1..Len(data.series) |-> Sparkline(data.series[si].data)]]

\* Number.prototype.toFixed(1) of (num / den) * 100, den # 0: the nearest
\* tenth, a half rounded away from zero, "-" in front of a negative number.
toFixed1(num, den) ==
    LET n == (2 * Abs(num) * 1000 + Abs(den)) \div (2 * Abs(den))
        sign == IF (num < 0 /\ den > 0) \/ (num > 0 /\ den < 0) THEN <<"-">> ELSE <<>>
    IN sign \o NatToStr(n \div 10) \o <<".">> \o NatToStr(n % 10)

\* Faulty variant: the slices are taken over the sum of all series.
totalOfAllSeries(series) ==
    SumSeq([si \in 1..Len(series) |-> SumSeq(series[si].data)])

\* series[0]?.data?.reduce((a, b) => a + (Number.isFinite(b) ? b : 0), 0) || 0
total(series) == IF Len(series) = 0 THEN 0 ELSE SumSeq(series[1].data)

\* Number.isFinite(series[0]?.data[idx]) ? series[0].data[idx] : 0
rawVal(series, idx) ==
    IF Len(series) > 0 /\ idx <= Len(series[1].data) THEN series[1].data[idx] ELSE 0

\* const pct = total ? ((rawVal / total) * 100).toFixed(1) : '0.0'
pct(series, idx) ==
    IF total(series) # 0 THEN toFixed1(rawVal(series, idx), total(series))
    ELSE <<"0", ".", "0">>

RenderPie(data) ==
    [kind |-> "pie",
     slices |-> [idx \in 1..Len(data.categories) |->
                    [label |-> data.categories[idx],
                     rawVal |-> rawVal(data.series, idx),
                     pct |-> pct(data.series, idx)]]]

\* ReportChart({ result }) for result = { data }
ReportChart(data) ==
    CASE data.type = "table" -> RenderTable(data)
      [] data.type = "bar" -> RenderBar(data)
      [] data.type = "line" -> RenderLine(data)
      [] data.type = "pie" -> RenderPie(data)
      [] OTHER -> [kind |-> "unsupported"]

\* The chart preview: "Select at least one field to preview." when
\* buildChartData returned null, <ReportChart result={{ data: chartData }} />
\* otherwise.
ChartPreview(cd) == IF cd = NoChart THEN NothingRendered ELSE ReportChart(cd)

----------------------------------------------------------------------------
(* formatValue *)

NumNaN == [t |-> "NaN"]
NumInfinity == [t |-> "Infinity"]
NumNegInfinity == [t |-> "-Infinity"]
\* Number.isFinite(val): a value of number type other than NaN and +-Infinity
NumberIsFinite(val) == val.t = "number"

\* String.prototype.split(':')
RECURSIVE Split(_, _)
Split(s, sep) ==
    LET hits == {i \in 1..Len(s) : s[i] = sep}
    IN IF hits = {} THEN <<s>>
       ELSE LET i == SetMin(hits)
            IN <<SubSeq(s, 1, i - 1)>> \o Split(SubSeq(s, i + 1, Len(s)), sep)

\* parseInt(str, 10): white space, an optional sign, the longest run of digits
parseInt(str) ==
    LET a == SkipSpaces(str, 1)
        neg == a <= Len(str) /\ str[a] = "-"
        b == IF a <= Len(str) /\ str[a] \in {"-", "+"} THEN a + 1 ELSE a
        e == DigitRunEnd(str, b)
    IN IF e = b THEN NaN
       ELSE Fin(IF neg THEN 0 - DigitsValue(str, b, e) ELSE DigitsValue(str, b, e))

S_number == <<"n", "u", "m", "b", "e", "r">>
S_currency == <<"c", "u", "r", "r", "e", "n", "c", "y">>
S_percentage == <<"p", "e", "r", "c", "e", "n", "t", "a", "g", "e">>

\* Digits of a natural number in groups of three (en-US grouping)
RECURSIVE GroupDigits(_)
GroupDigits(n) ==
    IF n < 1000 THEN NatToStr(n)
    ELSE LET r == n % 1000
             pad == IF r < 10 THEN <<"0", "0">> ELSE IF r < 100 THEN <<"0">> ELSE <<>>
         IN GroupDigits(n \div 1000) \o <<",">> \o pad \o NatToStr(r)

Zeros(d) == [i \in 1..d |-> "0"]

\* new Intl.NumberFormat('en-US', { style, currency: 'USD',
\*   minimumFractionDigits: d, maximumFractionDigits: d }).format(val)
\* for an integer val; fraction digits that are NaN or outside 0..100 raise
\* a RangeError.
IntlFormat(val, d, prefix) ==
    IF d.nan \/ d.n < 0 \/ d.n > 100 THEN [t |-> "RangeError"]
    ELSE Str((IF val < 0 THEN <<"-">> ELSE <<>>) \o prefix \o GroupDigits(Abs(val))
             \o (IF d.n > 0 THEN <<".">> \o Zeros(d.n) ELSE <<>>))

AppendPercent(out) == IF out.t = "string" THEN Str(out.s \o <<"%">>) ELSE out

\* Faulty variant: no decimal by default for any type.
defaultDecimalsAllZero(formatType) == 0

\* decimals !== undefined ? decimals : (1 for percentage, 0 for currency and number)
defaultDecimals(formatType) == IF formatType = S_percentage THEN 1 ELSE 0

\* formatValue(val, fmt); fmt is undefined or a string
formatValue(val, fmt) ==
    IF ~NumberIsFinite(val) THEN val
    ELSE LET parts == Split(IF fmt.t = "string" /\ fmt.s # <<>> THEN fmt.s ELSE S_number, ":")
             formatType == parts[1]
             hasDecimals == Len(parts) >= 2 /\ parts[2] # <<>>
             decimalPlaces == IF hasDecimals THEN parseInt(parts[2])
                              ELSE Fin(defaultDecimals(formatType))
         IN CASE formatType = S_currency -> IntlFormat(val.n, decimalPlaces, <<"$">>)
              [] formatType = S_percentage ->
                    AppendPercent(IntlFormat(val.n, decimalPlaces, <<>>))
              [] OTHER -> IntlFormat(val.n, decimalPlaces, <<>>)

----------------------------------------------------------------------------
(* Input domains *)

F_rg == <<"R", "g">>
F_ts == <<"t", "_", "s">>
F_p == <<"p">>
Columns == <<F_rg, F_ts, F_p>>

East == <<"E", "a", "s", "t">>
West == <<"W", "e", "s", "t">>

Row1 == <<[k |-> F_rg, v |-> Str(East)], [k |-> F_ts, v |-> Num(100)],
          [k |-> F_p, v |-> Num(2)]>>
Row2 == <<[k |-> F_rg, v |-> Str(West)], [k |-> F_ts, v |-> Num(9000)],
          [k |-> F_p, v |-> Num(3)]>>
Row3 == <<[k |-> F_rg, v |-> NULL], [k |-> F_ts, v |-> NULL], [k |-> F_p, v |-> NULL]>>
Row4 == <<[k |-> F_rg, v |-> Num(7)], [k |-> <<"T", "_", "S">>, v |-> Str(<<"4", "0">>)],
          [k |-> F_p, v |-> Str(<<" ", "2", "x">>)]>>
Row5 == <<[k |-> F_rg, v |-> Str(East)], [k |-> <<"t", " ", "s">>, v |-> Num(41)]>>
Row6 == <<[k |-> F_rg, v |-> Num(5)], [k |-> <<"t", "s">>, v |-> Str(<<"x">>)],
          [k |-> F_p, v |-> Str(<<>>)]>>
RowPool == {Row1, Row2, Row3, Row4, Row5, Row6}

RowSeqs(n) == UNION {[1..m -> RowPool] : m \in 0..n}
SavedResultPool == {Result(Columns, rows) : rows \in RowSeqs(MaxRows)}

NoSelection == [present |-> FALSE, entries |-> <<>>]
Selection(entries) == [present |-> TRUE, entries |-> entries]
AllFields(columns) == Selection([i \in 1..Len(columns) |-> [col |-> columns[i], on |-> TRUE]])
SelectionPool ==
    {NoSelection} \cup
    {Selection([i \in 1..Len(Columns) |-> [col |-> Columns[i], on |-> f[i]]]) :
        f \in [1..Len(Columns) -> BOOLEAN]}

RowZ == <<[k |-> F_rg, v |-> Str(West)], [k |-> F_ts, v |-> Num(0)],
          [k |-> F_p, v |-> Num(3)]>>
ExecutedResultPool ==
    {Result(Columns, rows) : rows \in {<<>>, <<Row1, Row2>>, <<Row6, Row5>>, <<RowZ>>}}
ChartTypes == {"bar", "line", "pie", "table"}
NamePool == {<<"X">>}
\* the "Display as" input emptied again: e.target.value is ''
ClearedName == <<>>
FormatPool == {"currency"}

K_Total_Sales == <<"T", "o", "t", "a", "l", "_", "S", "a", "l", "e", "s">>
K_totalsales == <<"t", "o", "t", "a", "l", "s", "a", "l", "e", "s">>
K_TotalSpaceSales == <<"T", "o", "t", "a", "l", " ", "S", "a", "l", "e", "s">>
K_TOTAL_SALES == <<"T", "O", "T", "A", "L", "_", "S", "A", "L", "E", "S">>
K_total_sales == <<"t", "o", "t", "a", "l", "_", "s", "a", "l", "e", "s">>
K_other == <<"i", "d">>
\* Keys of a row are column names of a query result and are not empty; the
\* empty field stands for a missing field argument.
KeyPool == {K_Total_Sales, K_totalsales, K_TotalSpaceSales, K_TOTAL_SALES,
            K_total_sales, K_other}
FieldPool == {K_Total_Sales, K_other, <<>>}

\* Rows of up to MaxKeys distinct keys; the value stored under the i-th key
\* is the number i, so a result tells which key was read.
ResolverRows ==
    {NoRow} \cup
    UNION {{[i \in 1..m |-> [k |-> ks[i], v |-> Num(i)]] :
              ks \in {f \in [1..m -> KeyPool] :
                        \A i, j \in 1..m : i # j => f[i] # f[j]}} :
           m \in 0..MaxKeys}

\* Format strings: the options of the format selector ("number",
\* "number:1", ..., "percentage:2"), the same types with other decimals,
\* and no format at all.
FormatTypes == {S_number, S_currency, S_percentage}
DecimalsPool == 0..MaxDecimals
FormatStrings ==
    {Str(ty) : ty \in FormatTypes} \cup
    {Str(ty \o <<":">> \o NatToStr(d)) : ty \in FormatTypes, d \in DecimalsPool}
FormatArgs == {UNDEF} \cup FormatStrings
FormatValues == {Num(0), Num(7), Num(85), Num(5962), Num(0 - 1234567),
                 NumNaN, NumInfinity, NumNegInfinity, UNDEF}

----------------------------------------------------------------------------
(* The chart state of the component and its re-render *)

Render ==
    /\ chartData' = buildChartData(queryResults', chartFieldSelection',
                                   chartTypeSelection', seriesDisplayNames',
                                   seriesFormats', chartAxisLabels',
                                   chartDisplayOptions', TRUE)
    /\ detected' = detectedBy(queryResults', chartFieldSelection',
                              chartTypeSelection', TRUE)
    /\ detectedFirstRow' = detectedBy(queryResults', chartFieldSelection',
                                      chartTypeSelection', FALSE)
    /\ rendered' = ChartPreview(chartData')

ResolverIdle ==
    /\ resRow = NoRow
    /\ resField = <<>>
    /\ resCalled = FALSE
    /\ resValue = UNDEF

NoConfig == [none |-> TRUE]

StoreIdle ==
    /\ storedChartConfig = NoConfig
    /\ reportChartConfig = NoConfig
    /\ editingReportId = FALSE

FormatIdle ==
    /\ fmtVal = UNDEF
    /\ fmtFmt = UNDEF
    /\ fmtCalled = FALSE
    /\ fmtOut = UNDEF

\* ScheduleModal before its mount effect has run.  A schedule is
\* [id, recipients]; the other fields of the form and of a schedule
\* (frequency, day, time, enabled) are copied through by the handlers and
\* are left out.  ReportsView passes no userEmail, so the default recipient
\* list is [''].
NoSchedule == [id |-> 0, recipients |-> <<>>]

NoRequest == [kind |-> "none", id |-> 0, recipients |-> <<>>]

userEmail == UNDEF

DefaultRecipients == <<IF userEmail.t = "string" /\ userEmail.s # <<>>
                         THEN userEmail.s ELSE <<>> >>

DefaultFormData == [recipients |-> DefaultRecipients]

\* What a handler did: the request it sent (at most one create, update or
\* delete), whether the server accepted it, how the reload of the list that
\* followed went, and the toast it showed.
Event(handler, request, accepted, reload, toast) ==
    [handler |-> handler, request |-> request, accepted |-> accepted,
     reload |-> reload, toast |-> toast]

\* no refreshReports call is waiting
NoSnapshot == [none |-> TRUE]

RefreshIdle ==
    /\ refreshPending = FALSE
    /\ refreshSnapshot = NoSnapshot

\* what localStorage.getItem answers for a missing key; also the null of the
\* role state
NoItem == "null"

\* the keys of localStorage the application uses
StorageKeys ==
    {"jwt", "role", "roles", "acting_role", "clientId", "selected_tenant_id",
     "demo_jwt"}

\* localStorage.getItem answers null for every key
EmptyStorage == [k \in StorageKeys |-> NoItem]

\* no real JWT was found by the mount effect
NoSession == [none |-> TRUE]

AuthIdle ==
    /\ localStorage = EmptyStorage
    /\ role = NoItem
    /\ roles = <<>>
    /\ actingRole = ""
    /\ now = 0
    /\ appMounted = FALSE
    /\ intervalInstalled = FALSE
    /\ mountSession = NoSession
    /\ authEvent = "none"

NetIdle ==
    /\ DEV = FALSE
    /\ refreshing = 0
    /\ refreshPromises = <<>>
    /\ calls = <<>>

ExtraIdle == RefreshIdle /\ AuthIdle /\ NetIdle

ScheduleIdle ==
    /\ schedules = <<>>
    /\ serverSchedules = <<>>
    /\ nextScheduleId = 1
    /\ view = "list"
    /\ selectedSchedule = NoSchedule
    /\ confirmDeleteId = 0
    /\ formData = DefaultFormData
    /\ loadError = FALSE
    /\ event = Event("none", NoRequest, FALSE, "none", "none")

Init ==
    /\ queryResults = NoResult
    /\ savedResults = NoResult
    /\ chartFieldSelection = NoSelection
    /\ chartTypeSelection = ""
    /\ chartAxisLabels = EmptyMap
    /\ chartDisplayOptions = EmptyMap
    /\ seriesFormats = EmptyMap
    /\ seriesDisplayNames = EmptyMap
    /\ chartData = NoChart
    /\ detected = NotDetected
    /\ detectedFirstRow = NotDetected
    /\ rendered = NothingRendered
    /\ ResolverIdle
    /\ FormatIdle
    /\ StoreIdle
    /\ ScheduleIdle
    /\ ExtraIdle

\* handleExecuteQuery(reportId), the branch of a successful response; the
\* back end keeps the executed result as the report's saved result.
HandleExecuteQuery(res) ==
    /\ queryResults' = res
    /\ savedResults' = res
    /\ IF Len(res.columns) > 0
       THEN /\ chartFieldSelection' =
                  IF ~chartFieldSelection.present \/ chartFieldSelection.entries = <<>>
                  THEN AllFields(res.columns)
                  ELSE chartFieldSelection
            /\ chartTypeSelection' = ChartTypeOrBar(chartTypeSelection)
            /\ chartDisplayOptions' =
                  [k \in {"showValuesOnBars", "rotateCategoryLabels"} |->
                     IF k = "showValuesOnBars"
                     THEN Get(chartDisplayOptions, k, TRUE)
                     ELSE Get(chartDisplayOptions, k, FALSE)]
       ELSE UNCHANGED <<chartFieldSelection, chartTypeSelection, chartDisplayOptions>>
    /\ UNCHANGED <<chartAxisLabels, seriesFormats, seriesDisplayNames>>
    /\ Render
    /\ UNCHANGED otherVars

\* handleLoadSavedResults(reportId)
HandleLoadSavedResults ==
    /\ savedResults.data
    /\ queryResults' = savedResults
    /\ IF Len(savedResults.columns) > 0 /\ ~chartFieldSelection.present
       THEN /\ chartFieldSelection' = AllFields(savedResults.columns)
            /\ chartTypeSelection' = ChartTypeOrBar(chartTypeSelection)
       ELSE UNCHANGED <<chartFieldSelection, chartTypeSelection>>
    /\ UNCHANGED <<savedResults, chartAxisLabels, chartDisplayOptions,
                   seriesFormats, seriesDisplayNames>>
    /\ Render
    /\ UNCHANGED otherVars

RECURSIVE SetEntry(_, _, _)
SetEntry(entries, col, on) ==
    IF entries = <<>> THEN <<[col |-> col, on |-> on]>>
    ELSE IF entries[1].col = col THEN <<[col |-> col, on |-> on]>> \o Tail(entries)
    ELSE <<entries[1]>> \o SetEntry(Tail(entries), col, on)

\* The field check boxes: { ...prev[r.id], [col]: e.target.checked }
ToggleField(col) ==
    /\ queryResults.data
    /\ \E i \in 1..Len(queryResults.columns) : queryResults.columns[i] = col
    /\ LET checked == \E i \in 1..Len(chartFieldSelection.entries) :
                         /\ chartFieldSelection.entries[i].col = col
                         /\ chartFieldSelection.entries[i].on
       IN chartFieldSelection' =
             Selection(SetEntry(chartFieldSelection.entries, col, ~checked))
    /\ UNCHANGED <<queryResults, savedResults, chartTypeSelection, chartAxisLabels,
                   chartDisplayOptions, seriesFormats, seriesDisplayNames>>
    /\ Render
    /\ UNCHANGED otherVars

\* The chart type selector
SetChartType(type) ==
    /\ queryResults.data
    /\ chartTypeSelection' = type
    /\ UNCHANGED <<queryResults, savedResults, chartFieldSelection, chartAxisLabels,
                   chartDisplayOptions, seriesFormats, seriesDisplayNames>>
    /\ Render
    /\ UNCHANGED otherVars

\* The fields the series configuration panel offers: the value fields of
\* its own copy of the classifier; no panel when there is none.
PanelFields ==
    IF ~queryResults.data THEN {}
    ELSE Range(DetectFields(selectedFields(chartFieldSelection.entries),
                            queryResults.rows, FALSE).valueFields)

\* "Display as" text input of the series configuration panel
SetSeriesDisplayName(field, name) ==
    /\ field \in PanelFields
    /\ seriesDisplayNames' = Put(seriesDisplayNames, field, name)
    /\ UNCHANGED <<queryResults, savedResults, chartFieldSelection, chartTypeSelection,
                   chartAxisLabels, chartDisplayOptions, seriesFormats>>
    /\ Render
    /\ UNCHANGED otherVars

\* "Format" selector of the series configuration panel
SetSeriesFormat(field, format) ==
    /\ field \in PanelFields
    /\ seriesFormats' = Put(seriesFormats, field, format)
    /\ UNCHANGED <<queryResults, savedResults, chartFieldSelection, chartTypeSelection,
                   chartAxisLabels, chartDisplayOptions, seriesDisplayNames>>
    /\ Render
    /\ UNCHANGED otherVars

Next ==
    \/ \E res \in ExecutedResultPool : HandleExecuteQuery(res)
    \/ HandleLoadSavedResults
    \/ \E col \in Range(Columns) : ToggleField(col)
    \/ \E type \in ChartTypes : SetChartType(type)
    \/ \E field \in Range(Columns), name \in NamePool : SetSeriesDisplayName(field, name)
    \/ SetSeriesDisplayName(F_p, ClearedName)
    \/ \E field \in Range(Columns), format \in FormatPool : SetSeriesFormat(field, format)

Spec == Init /\ [][Next]_vars

----------------------------------------------------------------------------
(* Saving the chart configuration: the settings are edited in the          *)
(* component state and written to the store when the report is saved.      *)

\* Faulty variant: only the selection and the chart type are carried, the
\* other four parts are sent empty.
ConfigOfSelectionAndType(sel, type, labels, options, formats, names) ==
    [selectedFields |-> sel.entries,
     chartType |-> ChartTypeOrBar(type),
     axisLabels |-> EmptyMap,
     displayOptions |-> EmptyMap,
     seriesFormats |-> EmptyMap,
     seriesDisplayNames |-> EmptyMap]

\* const config = { selectedFields: chartFieldSelection[reportId] || {}, ... }
ChartConfigOf(sel, type, labels, options, formats, names) ==
    [selectedFields |-> sel.entries,
     chartType |-> ChartTypeOrBar(type),
     axisLabels |-> labels,
     displayOptions |-> options,
     seriesFormats |-> formats,
     seriesDisplayNames |-> names]

\* The X / Y axis label inputs: { ...(prev[r.id] || {}), x: e.target.value }
SetAxisLabel(axis, text) ==
    /\ queryResults.data
    /\ chartAxisLabels' = Put(chartAxisLabels, axis, text)
    /\ UNCHANGED <<queryResults, savedResults, chartFieldSelection, chartTypeSelection,
                   chartDisplayOptions, seriesFormats, seriesDisplayNames>>
    /\ Render
    /\ UNCHANGED otherVars

\* The "Show values on bars" / "Rotate labels" check boxes
SetDisplayOption(option) ==
    /\ queryResults.data
    /\ chartDisplayOptions' =
          Put(chartDisplayOptions, option, ~Get(chartDisplayOptions, option, FALSE))
    /\ UNCHANGED <<queryResults, savedResults, chartFieldSelection, chartTypeSelection,
                   chartAxisLabels, seriesFormats, seriesDisplayNames>>
    /\ Render
    /\ UNCHANGED otherVars

\* startEditingReport(report): the saved selection and chart type are loaded
StartEditingReport ==
    /\ ~editingReportId
    /\ editingReportId' = TRUE
    /\ IF reportChartConfig # NoConfig
       THEN /\ chartFieldSelection' = Selection(reportChartConfig.selectedFields)
            /\ chartTypeSelection' = reportChartConfig.chartType
       ELSE UNCHANGED <<chartFieldSelection, chartTypeSelection>>
    /\ UNCHANGED <<queryResults, savedResults, chartAxisLabels, chartDisplayOptions,
                   seriesFormats, seriesDisplayNames>>
    /\ Render
    /\ UNCHANGED <<resolverVars, formatVars, scheduleVars, extraVars, storedChartConfig,
                   reportChartConfig>>

\* cancelEditingReport()
CancelEditingReport ==
    /\ editingReportId
    /\ editingReportId' = FALSE
    /\ UNCHANGED <<chartVars, resolverVars, formatVars, scheduleVars, extraVars,
                   storedChartConfig,
                   reportChartConfig>>

\* handleSaveReportAndChart(reportId) with a report name and an accepted
\* updateReport (otherwise it returns before the chart configuration is
\* touched): handleSaveChartConfig sends the configuration, which the store
\* keeps when it accepts the request (saveOk); edit mode ends; refreshReports
\* then copies the stored configuration back into the component state and
\* reloads the saved result when it has rows.
HandleSaveReportAndChart(saveOk) ==
    /\ editingReportId
    /\ LET config == ChartConfigOf(chartFieldSelection, chartTypeSelection,
                                   chartAxisLabels, chartDisplayOptions,
                                   seriesFormats, seriesDisplayNames)
           stored == IF saveOk THEN config ELSE storedChartConfig
       IN /\ storedChartConfig' = stored
          /\ reportChartConfig' = IF stored # NoConfig THEN stored ELSE reportChartConfig
          /\ IF stored # NoConfig
             THEN /\ chartFieldSelection' = Selection(stored.selectedFields)
                  /\ chartTypeSelection' = stored.chartType
                  /\ chartAxisLabels' = stored.axisLabels
                  /\ chartDisplayOptions' = stored.displayOptions
                  /\ seriesFormats' = stored.seriesFormats
                  /\ seriesDisplayNames' = stored.seriesDisplayNames
             ELSE UNCHANGED <<chartFieldSelection, chartTypeSelection, chartAxisLabels,
                              chartDisplayOptions, seriesFormats, seriesDisplayNames>>
          /\ queryResults' =
                IF /\ stored # NoConfig
                   /\ Len(stored.selectedFields) > 0
                   /\ savedResults.data
                   /\ Len(savedResults.rows) > 0
                THEN savedResults
                ELSE queryResults
    /\ editingReportId' = FALSE
    /\ UNCHANGED savedResults
    /\ Render
    /\ UNCHANGED <<resolverVars, formatVars, scheduleVars, extraVars>>

ConfigResult == Result(Columns, <<Row1, Row2>>)
AxisLabelPool == {"Region"}

NextConfig ==
    \/ HandleExecuteQuery(ConfigResult)
    \/ ToggleField(F_p)
    \/ \E type \in {"bar", "pie"} : SetChartType(type)
    \/ \E text \in AxisLabelPool : SetAxisLabel("x", text)
    \/ SetDisplayOption("rotateCategoryLabels")
    \/ \E format \in FormatPool : SetSeriesFormat(F_p, format)
    \/ \E name \in NamePool : SetSeriesDisplayName(F_p, name)
    \/ StartEditingReport
    \/ CancelEditingReport
    \/ \E saveOk \in BOOLEAN : HandleSaveReportAndChart(saveOk)

SpecConfig == Init /\ [][NextConfig]_vars

----------------------------------------------------------------------------
(* refreshReports in two steps: the call captures the chart state of the   *)
(* render it was made from and waits for getReports; the user keeps        *)
(* changing settings; the answer is then synced into the state.            *)

\* the state variables refreshReports reads, as its closure holds them
SnapshotOfState ==
    [chartFieldSelection |-> chartFieldSelection,
     chartTypeSelection |-> chartTypeSelection,
     reportChartConfig |-> reportChartConfig,
     chartAxisLabels |-> chartAxisLabels,
     chartDisplayOptions |-> chartDisplayOptions,
     seriesFormats |-> seriesFormats,
     seriesDisplayNames |-> seriesDisplayNames]

\* if (r.chartConfig) ... if (r.chartConfig.part): the answer holds a
\* chartConfig for the report, with a truthy value for the part (an object,
\* or a chart type other than '')
Supplies(config, part) ==
    /\ config # NoConfig
    /\ part \in DOMAIN config
    /\ part = "chartType" => config[part] # ""

\* newPart = { ...part }; if supplied, newPart[r.id] = r.chartConfig.part
SyncedPart(snapshotPart, config, part) ==
    IF Supplies(config, part) THEN config[part] ELSE snapshotPart

\* the Refresh button: refreshReports() up to "await getReports()"
RefreshStart ==
    /\ ~refreshPending
    /\ refreshPending' = TRUE
    /\ refreshSnapshot' = SnapshotOfState
    /\ UNCHANGED <<chartVars, resolverVars, formatVars, storeVars, scheduleVars,
                   authVars, netVars>>

\* refreshReports() from the answer of getReports on: the answer is an
\* object with the reports, the report's chartConfig being what the store
\* holds.
RefreshFinish ==
    /\ refreshPending
    /\ LET config == storedChartConfig
           snap == refreshSnapshot
       IN /\ reportChartConfig' =
                IF config # NoConfig THEN config ELSE snap.reportChartConfig
          /\ chartFieldSelection' =
                IF Supplies(config, "selectedFields")
                THEN Selection(config.selectedFields)
                ELSE snap.chartFieldSelection
          /\ chartTypeSelection' =
                SyncedPart(snap.chartTypeSelection, config, "chartType")
          /\ chartAxisLabels' = SyncedPart(snap.chartAxisLabels, config, "axisLabels")
          /\ chartDisplayOptions' =
                SyncedPart(snap.chartDisplayOptions, config, "displayOptions")
          /\ seriesFormats' = SyncedPart(snap.seriesFormats, config, "seriesFormats")
          /\ seriesDisplayNames' =
                SyncedPart(snap.seriesDisplayNames, config, "seriesDisplayNames")
          /\ queryResults' =
                IF /\ Supplies(config, "selectedFields")
                   /\ Len(config.selectedFields) > 0
                   /\ savedResults.data
                   /\ Len(savedResults.rows) > 0
                THEN savedResults
                ELSE queryResults
    /\ refreshPending' = FALSE
    /\ refreshSnapshot' = NoSnapshot
    /\ UNCHANGED <<savedResults, storedChartConfig, editingReportId>>
    /\ Render
    /\ UNCHANGED <<resolverVars, formatVars, scheduleVars, authVars, netVars>>

\* a chartConfig in the store that holds the selection and the chart type
\* only
PartialConfig ==
    [selectedFields |-> AllFields(Columns).entries, chartType |-> "pie"]

StoredConfigPool == {NoConfig, PartialConfig}

InitRefresh ==
    /\ queryResults = NoResult
    /\ savedResults = NoResult
    /\ chartFieldSelection = NoSelection
    /\ chartTypeSelection = ""
    /\ chartAxisLabels = EmptyMap
    /\ chartDisplayOptions = EmptyMap
    /\ seriesFormats = EmptyMap
    /\ seriesDisplayNames = EmptyMap
    /\ chartData = NoChart
    /\ detected = NotDetected
    /\ detectedFirstRow = NotDetected
    /\ rendered = NothingRendered
    /\ ResolverIdle
    /\ FormatIdle
    /\ storedChartConfig \in StoredConfigPool
    /\ reportChartConfig = NoConfig
    /\ editingReportId = FALSE
    /\ ScheduleIdle
    /\ ExtraIdle

NextRefresh ==
    \/ RefreshStart
    \/ RefreshFinish
    \/ HandleExecuteQuery(ConfigResult)
    \/ ToggleField(F_p)
    \/ SetChartType("line")
    \/ \E text \in AxisLabelPool : SetAxisLabel("x", text)
    \/ SetDisplayOption("rotateCategoryLabels")
    \/ \E format \in FormatPool : SetSeriesFormat(F_p, format)
    \/ \E name \in NamePool : SetSeriesDisplayName(F_p, name)

SpecRefresh == InitRefresh /\ [][NextRefresh]_vars

----------------------------------------------------------------------------
(* buildChartData over saved results: the chart configuration is the one   *)
(* read from the store, the saved result is loaded and the chart rendered. *)

InitSaved ==
    /\ queryResults = NoResult
    /\ savedResults \in SavedResultPool
    /\ chartFieldSelection \in SelectionPool
    /\ chartTypeSelection = ""
    /\ chartAxisLabels = EmptyMap
    /\ chartDisplayOptions = EmptyMap
    /\ seriesFormats = EmptyMap
    /\ seriesDisplayNames = EmptyMap
    /\ chartData = NoChart
    /\ detected = NotDetected
    /\ detectedFirstRow = NotDetected
    /\ rendered = NothingRendered
    /\ ResolverIdle
    /\ FormatIdle
    /\ StoreIdle
    /\ ScheduleIdle
    /\ ExtraIdle

NextSaved == HandleLoadSavedResults

SpecSaved == InitSaved /\ [][NextSaved]_vars

----------------------------------------------------------------------------
(* resolveFieldValue on its own *)

InitResolver ==
    /\ queryResults = NoResult
    /\ savedResults = NoResult
    /\ chartFieldSelection = NoSelection
    /\ chartTypeSelection = ""
    /\ chartAxisLabels = EmptyMap
    /\ chartDisplayOptions = EmptyMap
    /\ seriesFormats = EmptyMap
    /\ seriesDisplayNames = EmptyMap
    /\ chartData = NoChart
    /\ detected = NotDetected
    /\ detectedFirstRow = NotDetected
    /\ rendered = NothingRendered
    /\ resRow \in ResolverRows
    /\ resField \in FieldPool
    /\ resCalled = FALSE
    /\ resValue = UNDEF
    /\ FormatIdle
    /\ StoreIdle
    /\ ScheduleIdle
    /\ ExtraIdle

CallResolveFieldValue ==
    /\ ~resCalled
    /\ resCalled' = TRUE
    /\ resValue' = resolveFieldValue(resRow, resField)
    /\ UNCHANGED <<resRow, resField>>
    /\ UNCHANGED <<chartVars, formatVars, storeVars, scheduleVars, extraVars>>

NextResolver == CallResolveFieldValue

SpecResolver == InitResolver /\ [][NextResolver]_vars

----------------------------------------------------------------------------
(* buildChartData over the result of a query with an unaliased column:     *)
(* MySQL names the column of SELECT '' with the empty string, SQL Server   *)
(* every unaliased expression (SELECT COUNT( * ) ...), and the column name *)
(* is the key of the cell in each row object.                              *)

F_unnamed == <<>>
UnnamedColumns == <<F_unnamed, F_rg, F_p>>
URow1 == <<[k |-> F_unnamed, v |-> Num(3)], [k |-> F_rg, v |-> Str(East)],
           [k |-> F_p, v |-> Num(2)]>>
URow2 == <<[k |-> F_unnamed, v |-> Num(5)], [k |-> F_rg, v |-> Num(7)],
           [k |-> F_p, v |-> Num(3)]>>
UnnamedRowPool == {URow1, URow2}
UnnamedResultPool ==
    {Result(UnnamedColumns, rows) :
        rows \in UNION {[1..m -> UnnamedRowPool] : m \in 0..MaxRows}}
UnnamedSelectionPool ==
    {NoSelection} \cup
    {Selection([i \in 1..Len(UnnamedColumns) |-> [col |-> UnnamedColumns[i], on |-> f[i]]]) :
        f \in [1..Len(UnnamedColumns) -> BOOLEAN]}

InitUnnamed ==
    /\ queryResults = NoResult
    /\ savedResults \in UnnamedResultPool
    /\ chartFieldSelection \in UnnamedSelectionPool
    /\ chartTypeSelection \in ChartTypes \cup {""}
    /\ chartAxisLabels = EmptyMap
    /\ chartDisplayOptions = EmptyMap
    /\ seriesFormats = EmptyMap
    /\ seriesDisplayNames = EmptyMap
    /\ chartData = NoChart
    /\ detected = NotDetected
    /\ detectedFirstRow = NotDetected
    /\ rendered = NothingRendered
    /\ ResolverIdle
    /\ FormatIdle
    /\ StoreIdle
    /\ ScheduleIdle
    /\ ExtraIdle

NextUnnamed == HandleLoadSavedResults

SpecUnnamed == InitUnnamed /\ [][NextUnnamed]_vars

----------------------------------------------------------------------------
(* formatValue on its own *)

InitFormat ==
    /\ queryResults = NoResult
    /\ savedResults = NoResult
    /\ chartFieldSelection = NoSelection
    /\ chartTypeSelection = ""
    /\ chartAxisLabels = EmptyMap
    /\ chartDisplayOptions = EmptyMap
    /\ seriesFormats = EmptyMap
    /\ seriesDisplayNames = EmptyMap
    /\ chartData = NoChart
    /\ detected = NotDetected
    /\ detectedFirstRow = NotDetected
    /\ rendered = NothingRendered
    /\ ResolverIdle
    /\ fmtVal \in FormatValues
    /\ fmtFmt \in FormatArgs
    /\ fmtCalled = FALSE
    /\ fmtOut = UNDEF
    /\ StoreIdle
    /\ ScheduleIdle
    /\ ExtraIdle

CallFormatValue ==
    /\ ~fmtCalled
    /\ fmtCalled' = TRUE
    /\ fmtOut' = formatValue(fmtVal, fmtFmt)
    /\ UNCHANGED <<fmtVal, fmtFmt>>
    /\ UNCHANGED <<chartVars, resolverVars, storeVars, scheduleVars, extraVars>>

NextFormat == CallFormatValue

SpecFormat == InitFormat /\ [][NextFormat]_vars

----------------------------------------------------------------------------
(* buildChartData under display options read from the store: the          *)
(* chartConfig.displayOptions of a report is copied into the state as it   *)
(* is, whatever keys it holds.                                             *)

DisplayOptionKeys == {"showValuesOnBars", "rotateCategoryLabels", "useSeparateScale"}

StoredDisplayOptionsPool ==
    UNION {[ks -> BOOLEAN] : ks \in SUBSET DisplayOptionKeys}

InitOptions ==
    /\ queryResults = NoResult
    /\ savedResults \in ExecutedResultPool
    /\ chartFieldSelection \in SelectionPool
    /\ chartTypeSelection \in {"", "line"}
    /\ chartAxisLabels = EmptyMap
    /\ chartDisplayOptions \in StoredDisplayOptionsPool
    /\ seriesFormats = EmptyMap
    /\ seriesDisplayNames = EmptyMap
    /\ chartData = NoChart
    /\ detected = NotDetected
    /\ detectedFirstRow = NotDetected
    /\ rendered = NothingRendered
    /\ ResolverIdle
    /\ FormatIdle
    /\ StoreIdle
    /\ ScheduleIdle
    /\ ExtraIdle

NextOptions == HandleLoadSavedResults

SpecOptions == InitOptions /\ [][NextOptions]_vars

----------------------------------------------------------------------------
(* ReportChart alone, on chart specifications of every sign *)

RenderValues == {0 - 5, 0, 3, 100}

RenderCategories(n) == [i \in 1..n |-> NatToStr(i)]

\* Series data over n categories: constant series of every value, and
\* series whose first point differs from the others.
RenderData(n) ==
    {[i \in 1..n |-> v] : v \in RenderValues} \cup
    {[i \in 1..n |-> IF i = 1 THEN ab[1] ELSE ab[2]] :
        ab \in {<<3, 100>>, <<0 - 5, 0>>, <<0, 100>>}}

RenderSeries(m, n) ==
    {[si \in 1..m |-> [name |-> F_ts, originalName |-> F_ts, data |-> d[si]]] :
        d \in [1..m -> RenderData(n)]}

\* Bar and line specifications of up to MaxPoints series over up to
\* MaxPoints categories, as buildChartData shapes them.
RenderSpecPool ==
    {[type |-> type, categories |-> RenderCategories(n), series |-> series,
      xLabel |-> "", yLabel |-> "", seriesFormats |-> EmptyMap,
      displayOptions |-> Put(EmptyMap, "useSeparateScale", SeparateScale(series))] :
        <<type, n, series>> \in
            UNION {{<<ty, k, ss>> : ss \in RenderSeries(m, k)} :
                      ty \in {"bar", "line"}, m \in 0..MaxPoints, k \in 0..MaxPoints}}

InitRender ==
    /\ queryResults = NoResult
    /\ savedResults = NoResult
    /\ chartFieldSelection = NoSelection
    /\ chartTypeSelection = ""
    /\ chartAxisLabels = EmptyMap
    /\ chartDisplayOptions = EmptyMap
    /\ seriesFormats = EmptyMap
    /\ seriesDisplayNames = EmptyMap
    /\ chartData \in RenderSpecPool
    /\ detected = NotDetected
    /\ detectedFirstRow = NotDetected
    /\ rendered = NothingRendered
    /\ ResolverIdle
    /\ FormatIdle
    /\ StoreIdle
    /\ ScheduleIdle
    /\ ExtraIdle

\* <ReportChart result={{ data: chartData }} />
CallReportChart ==
    /\ rendered = NothingRendered
    /\ rendered' = ReportChart(chartData)
    /\ UNCHANGED <<queryResults, savedResults, chartFieldSelection, chartTypeSelection,
                   chartAxisLabels, chartDisplayOptions, seriesFormats,
                   seriesDisplayNames, chartData, detected, detectedFirstRow>>
    /\ UNCHANGED otherVars

NextRender == CallReportChart

SpecRender == InitRender /\ [][NextRender]_vars

----------------------------------------------------------------------------
(* ScheduleModal (src/src/components/ScheduleModal.jsx).  A handler runs to *)
(* completion, awaited requests included, before the next one starts.      *)

R_valid == <<"a", "@", "b">>
R_noat == <<"b", "o", "b">>
\* what the user types into a recipient input; addRecipient adds the empty
\* entry
RecipientPool == {R_valid, R_noat}

IsWhitespace(c) == c \in {" "}

\* String.prototype.trim
RECURSIVE trimStart(_)
trimStart(str) ==
    IF str # <<>> /\ IsWhitespace(Head(str)) THEN trimStart(Tail(str)) ELSE str

RECURSIVE trimEnd(_)
trimEnd(str) ==
    IF str # <<>> /\ IsWhitespace(str[Len(str)])
    THEN trimEnd(SubSeq(str, 1, Len(str) - 1))
    ELSE str

trim(str) == trimEnd(trimStart(str))

\* String.prototype.includes for a one-character search string
includes(str, c) == \E i \in 1..Len(str) : str[i] = c

\* r => r.trim() && r.includes('@')
IsValidRecipient(r) == trim(r) # <<>> /\ includes(r, "@")

allRecipients(recipients) == recipients

validRecipients(recipients) == SelectSeq(recipients, IsValidRecipient)

mounted == event.handler # "none"

FormViews == {"create", "edit"}

ScheduleIds(list) == {list[i].id : i \in 1..Len(list)}

\* what the list view renders: the error panel with Retry while the load
\* error is set, the schedules otherwise
shownSchedules == IF loadError THEN <<>> ELSE schedules

\* the server's createSchedule, updateSchedule and deleteSchedule
ServerCreate(recipients) ==
    Append(serverSchedules, [id |-> nextScheduleId, recipients |-> recipients])

ServerUpdate(id, recipients) ==
    [i \in 1..Len(serverSchedules) |->
        IF serverSchedules[i].id = id
        THEN [serverSchedules[i] EXCEPT !.recipients = recipients]
        ELSE serverSchedules[i]]

RECURSIVE ServerDelete(_, _)
ServerDelete(list, id) ==
    IF list = <<>> THEN <<>>
    ELSE IF Head(list).id = id THEN ServerDelete(Tail(list), id)
    ELSE <<Head(list)>> \o ServerDelete(Tail(list), id)

\* loadSchedules: on success the list becomes what the server holds; on
\* failure the list is left alone and the load error is set.
loadSchedules(ok) ==
    /\ schedules' = IF ok THEN serverSchedules' ELSE schedules
    /\ loadError' = ~ok

ReloadResult(ok) == IF ok THEN "ok" ELSE "failed"

resetFormDataOnly ==
    /\ formData' = DefaultFormData
    /\ UNCHANGED selectedSchedule

resetForm ==
    /\ formData' = DefaultFormData
    /\ selectedSchedule' = NoSchedule

\* the mount effect, and the Retry button shown with the load error
LoadSchedules(ok) ==
    /\ ~mounted \/ (view = "list" /\ loadError)
    /\ UNCHANGED serverSchedules
    /\ loadSchedules(ok)
    /\ event' = Event("loadSchedules", NoRequest, FALSE, ReloadResult(ok),
                      IF ok THEN "none" ELSE "error")
    /\ UNCHANGED <<nextScheduleId, view, selectedSchedule, confirmDeleteId, formData>>
    /\ UNCHANGED <<chartVars, resolverVars, formatVars, storeVars, extraVars>>

\* the "+ Create New Schedule" button
OpenCreate ==
    /\ mounted
    /\ view = "list"
    /\ resetForm
    /\ view' = "create"
    /\ event' = Event("openCreate", NoRequest, FALSE, "none", "none")
    /\ UNCHANGED <<schedules, serverSchedules, nextScheduleId, confirmDeleteId, loadError>>
    /\ UNCHANGED <<chartVars, resolverVars, formatVars, storeVars, extraVars>>

HandleEdit(schedule) ==
    /\ mounted
    /\ view = "list"
    /\ ~loadError
    /\ schedule \in Range(schedules)
    /\ selectedSchedule' = schedule
    /\ formData' = [recipients |-> IF Len(schedule.recipients) > 0
                                   THEN schedule.recipients
                                   ELSE DefaultRecipients]
    /\ view' = "edit"
    /\ event' = Event("handleEdit", NoRequest, FALSE, "none", "none")
    /\ UNCHANGED <<schedules, serverSchedules, nextScheduleId, confirmDeleteId, loadError>>
    /\ UNCHANGED <<chartVars, resolverVars, formatVars, storeVars, extraVars>>

UpdateRecipient(index, value) ==
    /\ view \in FormViews
    /\ index \in 1..Len(formData.recipients)
    /\ formData' = [formData EXCEPT !.recipients[index] = value]
    /\ event' = Event("updateRecipient", NoRequest, FALSE, "none", "none")
    /\ UNCHANGED <<schedules, serverSchedules, nextScheduleId, view, selectedSchedule,
                   confirmDeleteId, loadError>>
    /\ UNCHANGED <<chartVars, resolverVars, formatVars, storeVars, extraVars>>

AddRecipient ==
    /\ view \in FormViews
    /\ Len(formData.recipients) < MaxRecipients
    /\ formData' = [formData EXCEPT !.recipients = Append(@, <<>>)]
    /\ event' = Event("addRecipient", NoRequest, FALSE, "none", "none")
    /\ UNCHANGED <<schedules, serverSchedules, nextScheduleId, view, selectedSchedule,
                   confirmDeleteId, loadError>>
    /\ UNCHANGED <<chartVars, resolverVars, formatVars, storeVars, extraVars>>

\* recipients.filter((_, i) => i !== index)
withoutIndex(seq, index) ==
    [i \in 1..(Len(seq) - 1) |-> IF i < index THEN seq[i] ELSE seq[i + 1]]

RemoveRecipient(index) ==
    /\ view \in FormViews
    /\ Len(formData.recipients) > 1
    /\ index \in 1..Len(formData.recipients)
    /\ LET newRecipients == withoutIndex(formData.recipients, index)
       IN formData' = [formData EXCEPT !.recipients =
                          IF Len(newRecipients) > 0 THEN newRecipients ELSE << <<>> >>]
    /\ event' = Event("removeRecipient", NoRequest, FALSE, "none", "none")
    /\ UNCHANGED <<schedules, serverSchedules, nextScheduleId, view, selectedSchedule,
                   confirmDeleteId, loadError>>
    /\ UNCHANGED <<chartVars, resolverVars, formatVars, storeVars, extraVars>>

SubmitRequest(recipients) ==
    IF selectedSchedule # NoSchedule
    THEN [kind |-> "update", id |-> selectedSchedule.id, recipients |-> recipients]
    ELSE [kind |-> "create", id |-> 0, recipients |-> recipients]

\* handleSubmit; accepted is the server's answer to the create or update
\* request, reloadOk that of the getSchedules that follows.
HandleSubmit(accepted, reloadOk) ==
    /\ view \in FormViews
    /\ LET valid == validRecipients(formData.recipients)
           request == SubmitRequest(valid)
       IN IF Len(valid) = 0
          THEN /\ event' = Event("handleSubmit", NoRequest, FALSE, "none", "error")
               /\ UNCHANGED <<schedules, serverSchedules, nextScheduleId, view,
                              selectedSchedule, formData, loadError>>
          ELSE IF ~accepted
          THEN /\ event' = Event("handleSubmit", request, FALSE, "none", "error")
               /\ UNCHANGED <<schedules, serverSchedules, nextScheduleId, view,
                              selectedSchedule, formData, loadError>>
          ELSE /\ request.kind = "create" => nextScheduleId <= MaxSchedules
               /\ serverSchedules' = IF request.kind = "update"
                                     THEN ServerUpdate(request.id, valid)
                                     ELSE ServerCreate(valid)
               /\ nextScheduleId' = IF request.kind = "create"
                                    THEN nextScheduleId + 1 ELSE nextScheduleId
               /\ resetForm
               /\ view' = "list"
               /\ loadSchedules(reloadOk)
               /\ event' = Event("handleSubmit", request, TRUE,
                                 ReloadResult(reloadOk), "success")
    /\ UNCHANGED confirmDeleteId
    /\ UNCHANGED <<chartVars, resolverVars, formatVars, storeVars, extraVars>>

CancelFormWithoutReset ==
    /\ view' = "list"
    /\ UNCHANGED <<formData, selectedSchedule>>

\* the Cancel and the Back to List buttons of the form
CancelForm ==
    /\ view' = "list"
    /\ resetForm

PressCancel ==
    /\ view \in FormViews
    /\ CancelForm
    /\ event' = Event("cancel", NoRequest, FALSE, "none", "none")
    /\ UNCHANGED <<schedules, serverSchedules, nextScheduleId, confirmDeleteId, loadError>>
    /\ UNCHANGED <<chartVars, resolverVars, formatVars, storeVars, extraVars>>

neverNeedsConfirmation(scheduleId) == FALSE

\* confirmDeleteId !== scheduleId
needsConfirmation(scheduleId) == confirmDeleteId # scheduleId

\* handleDelete(scheduleId), from the Delete and the Confirm buttons
HandleDelete(scheduleId, accepted, reloadOk) ==
    /\ mounted
    /\ view = "list"
    /\ ~loadError
    /\ scheduleId \in ScheduleIds(schedules)
    /\ IF needsConfirmation(scheduleId)
       THEN /\ confirmDeleteId' = scheduleId
            /\ event' = Event("handleDelete", NoRequest, FALSE, "none", "none")
            /\ UNCHANGED <<schedules, serverSchedules, loadError>>
       ELSE /\ confirmDeleteId' = 0
            /\ LET request == [kind |-> "delete", id |-> scheduleId, recipients |-> <<>>]
               IN IF accepted
                  THEN /\ serverSchedules' = ServerDelete(serverSchedules, scheduleId)
                       /\ loadSchedules(reloadOk)
                       /\ event' = Event("handleDelete", request, TRUE,
                                         ReloadResult(reloadOk), "success")
                  ELSE /\ event' = Event("handleDelete", request, FALSE, "none", "error")
                       /\ UNCHANGED <<schedules, serverSchedules, loadError>>
    /\ UNCHANGED <<nextScheduleId, view, selectedSchedule, formData>>
    /\ UNCHANGED <<chartVars, resolverVars, formatVars, storeVars, extraVars>>

\* the Cancel button next to Confirm
CancelConfirmDelete ==
    /\ mounted
    /\ view = "list"
    /\ ~loadError
    /\ confirmDeleteId \in ScheduleIds(schedules)
    /\ confirmDeleteId' = 0
    /\ event' = Event("cancelConfirmDelete", NoRequest, FALSE, "none", "none")
    /\ UNCHANGED <<schedules, serverSchedules, nextScheduleId, view, selectedSchedule,
                   formData, loadError>>
    /\ UNCHANGED <<chartVars, resolverVars, formatVars, storeVars, extraVars>>

NextSchedule ==
    \/ \E ok \in BOOLEAN : LoadSchedules(ok)
    \/ OpenCreate
    \/ \E schedule \in Range(schedules) : HandleEdit(schedule)
    \/ \E index \in 1..MaxRecipients, value \in RecipientPool : UpdateRecipient(index, value)
    \/ AddRecipient
    \/ \E index \in 1..MaxRecipients : RemoveRecipient(index)
    \/ \E accepted \in BOOLEAN, reloadOk \in BOOLEAN : HandleSubmit(accepted, reloadOk)
    \/ PressCancel
    \/ \E scheduleId \in 1..MaxSchedules, accepted \in BOOLEAN, reloadOk \in BOOLEAN :
           HandleDelete(scheduleId, accepted, reloadOk)
    \/ CancelConfirmDelete

SpecSchedule == Init /\ [][NextSchedule]_vars

----------------------------------------------------------------------------
(* Session handling: auth.js and the mount effect of App.jsx.  A JWT is    *)
(* the record of its exp claim (0: no exp, or a token that does not        *)
(* decode); time is counted in units of the 30 s skew of isJwtExpired.     *)

MaxTime == 3
SkewTicks == 1

RolePool ==
    {"manager", "platform_admin", "business_owner", "delegate", "viewer", "other"}

\* the tokens the back end issues, by their exp claim; JwtNoExp carries none
JwtNoExp == "jwt_noexp"
JwtTokens == <<"jwt_exp1", "jwt_exp2", "jwt_exp3", "jwt_exp4">>

Jwt(exp) == IF exp = 0 THEN JwtNoExp ELSE JwtTokens[exp]

\* decodeJwt(token).exp, 0 when the payload has none or does not decode
decodeJwtExp(token) ==
    IF \E e \in DOMAIN JwtTokens : JwtTokens[e] = token
    THEN CHOOSE e \in DOMAIN JwtTokens : JwtTokens[e] = token
    ELSE 0

removeItems(storage, keys) ==
    [k \in StorageKeys |-> IF k \in keys THEN NoItem ELSE storage[k]]

\* isJwtExpired(token, skewSeconds = 30)
isJwtExpired(token, time) ==
    IF decodeJwtExp(token) = 0 THEN FALSE
    ELSE decodeJwtExp(token) <= time + SkewTicks

\* isSessionExpired()
isSessionExpired(storage, time) ==
    storage["jwt"] # NoItem /\ isJwtExpired(storage["jwt"], time)

\* getToken(): the token it returns and the storage it leaves
getTokenStorage(storage, time) ==
    IF isSessionExpired(storage, time)
    THEN removeItems(storage, {"jwt", "role", "clientId"})
    ELSE storage

getToken(storage, time) ==
    IF storage["jwt"] # NoItem /\ ~isJwtExpired(storage["jwt"], time)
    THEN storage["jwt"]
    ELSE storage["demo_jwt"]

\* fetchDevToken(): ok is whether the endpoint answered with a token
DevToken == "dev_token"
FallbackToken == "fallback_token"

fetchDevToken(storage, ok) ==
    IF ok THEN [storage EXCEPT !["demo_jwt"] = DevToken] ELSE storage

\* ensureDemoAuth()
ensureDemoAuth(storage, time, dev, ok) ==
    IF storage["jwt"] # NoItem /\ ~isJwtExpired(storage["jwt"], time)
    THEN storage
    ELSE IF getToken(storage, time) # NoItem
    THEN getTokenStorage(storage, time)
    ELSE IF dev /\ ok
    THEN fetchDevToken(getTokenStorage(storage, time), TRUE)
    ELSE [getTokenStorage(storage, time) EXCEPT !["demo_jwt"] = FallbackToken]

\* logout() of auth.js, with only the keys getToken removes
logoutRealSessionOnly(storage) == removeItems(storage, {"jwt", "role", "clientId"})

\* logout() of auth.js
logout(storage) ==
    removeItems(storage, {"jwt", "role", "roles", "acting_role", "clientId",
                          "selected_tenant_id", "demo_jwt"})

\* handleLogout() of App.jsx
handleLogout ==
    /\ localStorage' = logout(localStorage)
    /\ role' = NoItem
    /\ roles' = <<>>
    /\ actingRole' = ""
    /\ mountSession' = NoSession
    /\ authEvent' = "handleLogout"

\* JSON.stringify(data.roles) for a user of one role, and JSON.parse of it
RolesJson(r) == r
ParseRoles(text) == <<text>>

\* what login() leaves in localStorage for a user of one role
StoredSession(r, exp, tenant) ==
    [k \in StorageKeys |->
       CASE k = "jwt" -> Jwt(exp)
         [] k = "role" -> r
         [] k = "roles" -> RolesJson(r)
         [] k = "acting_role" -> r
         [] k = "clientId" -> "client_a"
         [] k = "selected_tenant_id" -> tenant
         [] OTHER -> NoItem]

StoragePool ==
    {StoredSession(r, exp, tenant) :
        r \in RolePool, exp \in {0, 1, MaxTime}, tenant \in {NoItem, "client_a"}}
    \cup {EmptyStorage, [EmptyStorage EXCEPT !["demo_jwt"] = DevToken]}

\* the useState initialisers of role, roles and actingRole
InitialRoles(storage) == IF storage["roles"] # NoItem THEN ParseRoles(storage["roles"]) ELSE <<>>

InitialActingRole(storage) ==
    IF storage["acting_role"] # NoItem THEN storage["acting_role"]
    ELSE IF storage["role"] # NoItem THEN storage["role"]
    ELSE ""

InitAuth ==
    /\ queryResults = NoResult
    /\ savedResults = NoResult
    /\ chartFieldSelection = NoSelection
    /\ chartTypeSelection = ""
    /\ chartAxisLabels = EmptyMap
    /\ chartDisplayOptions = EmptyMap
    /\ seriesFormats = EmptyMap
    /\ seriesDisplayNames = EmptyMap
    /\ chartData = NoChart
    /\ detected = NotDetected
    /\ detectedFirstRow = NotDetected
    /\ rendered = NothingRendered
    /\ ResolverIdle
    /\ FormatIdle
    /\ StoreIdle
    /\ ScheduleIdle
    /\ RefreshIdle
    /\ localStorage \in StoragePool
    /\ role = localStorage["role"]
    /\ roles = InitialRoles(localStorage)
    /\ actingRole = InitialActingRole(localStorage)
    /\ now = 0
    /\ appMounted = FALSE
    /\ intervalInstalled = FALSE
    /\ mountSession = NoSession
    /\ authEvent = "none"
    /\ DEV \in BOOLEAN
    /\ refreshing = 0
    /\ refreshPromises = <<>>
    /\ calls = <<>>

authIdleRest == <<chartVars, resolverVars, formatVars, storeVars, scheduleVars,
                  refreshVars, netVars>>

\* the mount effect of App: useEffect(() => {...}, [])
Mount ==
    /\ ~appMounted
    /\ appMounted' = TRUE
    /\ IF isSessionExpired(localStorage, now)
       THEN /\ handleLogout
            /\ intervalInstalled' = FALSE
       ELSE \E ok \in BOOLEAN :
              LET stored == ensureDemoAuth(localStorage, now, DEV, ok)
                  hasJwt == stored["jwt"] # NoItem
                  r == stored["role"]
              IN  /\ localStorage' = stored
                  /\ role' = r
                  /\ UNCHANGED <<roles, actingRole>>
                  \* the manager branch returns the EventSource cleanup
                  \* before setInterval is reached
                  /\ intervalInstalled' = (hasJwt /\ r # "manager")
                  /\ mountSession' = IF hasJwt THEN [role |-> r] ELSE NoSession
                  /\ authEvent' = "mount"
    /\ UNCHANGED <<now, authIdleRest>>

\* the clock advances
Tick ==
    /\ now < MaxTime
    /\ now' = now + 1
    /\ UNCHANGED <<localStorage, role, roles, actingRole, appMounted,
                   intervalInstalled, mountSession, authEvent, authIdleRest>>

\* maybeExpire, called by the interval timer
IntervalCheck ==
    /\ intervalInstalled
    /\ IF isSessionExpired(localStorage, now)
       THEN handleLogout
       ELSE /\ authEvent' = "maybeExpire"
            /\ UNCHANGED <<localStorage, role, roles, actingRole, mountSession>>
    /\ UNCHANGED <<now, appMounted, intervalInstalled, authIdleRest>>

\* the Logout button of the sidebar
PressLogout ==
    /\ appMounted
    /\ role # NoItem
    /\ handleLogout
    /\ UNCHANGED <<now, appMounted, intervalInstalled, authIdleRest>>

\* login() of auth.js answered with a token for a user of role r, and
\* onLoginSuccess ran
LoginSuccess(r, exp) ==
    /\ appMounted
    /\ role = NoItem
    /\ exp = 0 \/ exp > now + SkewTicks
    /\ localStorage' = [StoredSession(r, exp, localStorage["selected_tenant_id"])
                          EXCEPT !["clientId"] = "client_a"]
    /\ role' = r
    /\ roles' = <<r>>
    /\ actingRole' = r
    /\ authEvent' = "onLoginSuccess"
    /\ UNCHANGED <<now, appMounted, intervalInstalled, mountSession, authIdleRest>>

\* the tenant selector
SelectTenant(val) ==
    /\ appMounted
    /\ role # NoItem
    /\ localStorage["selected_tenant_id"] # val
    /\ localStorage' = [localStorage EXCEPT !["selected_tenant_id"] = val]
    /\ authEvent' = "selectTenant"
    /\ UNCHANGED <<role, roles, actingRole, now, appMounted, intervalInstalled,
                   mountSession, authIdleRest>>

NextAuth ==
    \/ Mount
    \/ Tick
    \/ IntervalCheck
    \/ PressLogout
    \/ \E r \in RolePool, exp \in {0, MaxTime} : LoginSuccess(r, exp)
    \/ SelectTenant("client_b")

SpecAuth == InitAuth /\ [][NextAuth]_vars

\* setInterval keeps calling maybeExpire: a check that would log the user
\* out is not postponed for ever
SpecAuthFair == SpecAuth /\ WF_vars(IntervalCheck)

----------------------------------------------------------------------------
(* request() of api.js and refreshToken() of auth.js.  A call of request   *)
(* is followed from await to await; the promise refreshToken creates is    *)
(* an entry of refreshPromises, and 'refreshing' holds its index.          *)

MaxCalls == 2
MaxRefreshes == 2

CallIds == 1..MaxCalls
PathPool == {"/reports", "/dev/token"}

\* what a fetch of request() can come to: a status, or an exception
\* (network failure, or the abort of fetchWithTimeout)
FetchOutcomes == {"200", "204", "401", "500", "throws"}

\* call 1 is a request of any path with any outcome; the calls beside it
\* are requests of /reports that are answered 200 or 401
PathsOf(c) == IF c = 1 THEN PathPool ELSE {"/reports"}
OutcomesOf(c) == IF c = 1 THEN FetchOutcomes ELSE {"200", "401"}

NoValue == [pending |-> TRUE]
ErrorValue(message) == [error |-> message]
JsonValue == [data |-> "json"]
SuccessValue == [success |-> TRUE]

IdleCall ==
    [pc |-> "idle", path |-> "/reports", attempt |-> 0, statuses |-> <<>>,
     fetches |-> 0, devFetches |-> 0, awaiting |-> 0, settled |-> "pending",
     result |-> NoValue]

\* the 401 branch of request() without the test of attempt
retriesEvery401(attempt, dev, path) == dev /\ path # "/dev/token"

\* attempt === 0 && import.meta.env?.DEV && path !== '/dev/token'
shouldRetry(attempt, dev, path) == attempt = 0 /\ dev /\ path # "/dev/token"

\* refreshToken() without 'if (refreshing) return refreshing'
neverJoins(marker) == FALSE

\* if (refreshing) return refreshing
joinsRefresh(marker) == marker # 0

\* the number of dev-token fetches in flight
devFetchesInFlight ==
    Cardinality({id \in DOMAIN refreshPromises : ~refreshPromises[id].settled})

netIdleRest == <<chartVars, resolverVars, formatVars, storeVars, scheduleVars,
                 refreshVars, role, roles, actingRole, now, appMounted,
                 intervalInstalled, mountSession, authEvent, DEV>>

\* request(path, options): the first fetch is sent
CallRequest(c, path) ==
    /\ calls[c].pc \in {"idle", "done"}
    /\ calls' = [calls EXCEPT ![c] =
                   [IdleCall EXCEPT !.pc = "fetching", !.path = path,
                                    !.fetches = 1]]
    /\ UNCHANGED <<localStorage, refreshing, refreshPromises, netIdleRest>>

\* the value request() returns for an answer it does not retry
Answer(status) ==
    CASE status = "401" -> ErrorValue("HTTP 401")
      [] status = "500" -> ErrorValue("HTTP 500")
      [] status = "204" -> SuccessValue
      [] status = "200" -> JsonValue
      [] OTHER -> ErrorValue("Network error")

\* the await of fetchWithTimeout in request() settles
FetchSettle(c, outcome) ==
    LET call == calls[c]
        seen == [call EXCEPT !.statuses = Append(call.statuses, outcome)]
    IN
    /\ call.pc = "fetching"
    /\ IF outcome = "401" /\ shouldRetry(call.attempt, DEV, call.path)
       THEN \* await refreshToken()
            IF joinsRefresh(refreshing)
            THEN /\ calls' = [calls EXCEPT ![c] =
                               [seen EXCEPT !.pc = "refreshing",
                                            !.awaiting = refreshing]]
                 /\ UNCHANGED <<localStorage, refreshing, refreshPromises>>
            ELSE /\ Len(refreshPromises) < MaxRefreshes
                 /\ refreshPromises' =
                       Append(refreshPromises, [settled |-> FALSE, value |-> NoItem])
                 /\ refreshing' = Len(refreshPromises) + 1
                 /\ calls' = [calls EXCEPT ![c] =
                               [seen EXCEPT !.pc = "refreshing",
                                            !.awaiting = Len(refreshPromises) + 1,
                                            !.devFetches = call.devFetches + 1]]
                 /\ UNCHANGED localStorage
       ELSE /\ calls' = [calls EXCEPT ![c] =
                          [seen EXCEPT !.pc = "done", !.settled = "resolved",
                                       !.result = Answer(outcome)]]
            /\ localStorage' = IF outcome = "401" THEN logout(localStorage)
                               ELSE localStorage
            /\ UNCHANGED <<refreshing, refreshPromises>>
    /\ UNCHANGED netIdleRest

\* the body of the promise of refreshToken: fetchDevToken settles, the
\* fallback token is stored if it brought none, and getToken() is the result
DevTokenSettle(id, ok) ==
    LET fetched == fetchDevToken(localStorage, ok)
        stored == IF ok THEN fetched
                  ELSE [fetched EXCEPT !["demo_jwt"] = FallbackToken]
    IN
    /\ id \in DOMAIN refreshPromises
    /\ ~refreshPromises[id].settled
    /\ localStorage' = getTokenStorage(stored, now)
    /\ refreshPromises' = [refreshPromises EXCEPT ![id] =
                             [settled |-> TRUE, value |-> getToken(stored, now)]]
    /\ UNCHANGED <<refreshing, calls, netIdleRest>>

\* 'await refreshToken()' of request() resumes: the caller that created the
\* promise (the one whose call started the dev-token fetch) clears the
\* marker in its finally, and request(path, options, 1) sends the second fetch
RefreshResume(c) ==
    LET call == calls[c] IN
    /\ call.pc = "refreshing"
    /\ refreshPromises[call.awaiting].settled
    /\ refreshing' = IF call.devFetches > 0 THEN 0 ELSE refreshing
    /\ calls' = [calls EXCEPT ![c] =
                   [call EXCEPT !.pc = "fetching", !.attempt = 1,
                                !.awaiting = 0,
                                !.fetches = call.fetches + 1]]
    /\ UNCHANGED <<localStorage, refreshPromises, netIdleRest>>

NetStoragePool ==
    {EmptyStorage, [EmptyStorage EXCEPT !["demo_jwt"] = DevToken],
     StoredSession("business_owner", 0, "client_a")}

InitNet ==
    /\ queryResults = NoResult
    /\ savedResults = NoResult
    /\ chartFieldSelection = NoSelection
    /\ chartTypeSelection = ""
    /\ chartAxisLabels = EmptyMap
    /\ chartDisplayOptions = EmptyMap
    /\ seriesFormats = EmptyMap
    /\ seriesDisplayNames = EmptyMap
    /\ chartData = NoChart
    /\ detected = NotDetected
    /\ detectedFirstRow = NotDetected
    /\ rendered = NothingRendered
    /\ ResolverIdle
    /\ FormatIdle
    /\ StoreIdle
    /\ ScheduleIdle
    /\ RefreshIdle
    /\ localStorage \in NetStoragePool
    /\ role = NoItem
    /\ roles = <<>>
    /\ actingRole = ""
    /\ now = 0
    /\ appMounted = FALSE
    /\ intervalInstalled = FALSE
    /\ mountSession = NoSession
    /\ authEvent = "none"
    /\ DEV \in BOOLEAN
    /\ refreshing = 0
    /\ refreshPromises = <<>>
    /\ calls = [c \in CallIds |-> IdleCall]

NextNet ==
    \/ \E c \in CallIds : \E path \in PathsOf(c) : CallRequest(c, path)
    \/ \E c \in CallIds : \E outcome \in OutcomesOf(c) : FetchSettle(c, outcome)
    \/ \E id \in 1..MaxRefreshes, ok \in BOOLEAN : DevTokenSettle(id, ok)
    \/ \E c \in CallIds : RefreshResume(c)

SpecNet == InitNet /\ [][NextNet]_vars

\* every await of call 1 settles: fetchWithTimeout aborts its fetch after
\* REQUEST_TIMEOUT, the dev-token fetch is answered or fails, and a
\* continuation whose promise has settled is run
SpecNetFair ==
    /\ SpecNet
    /\ WF_vars(\E outcome \in OutcomesOf(1) : FetchSettle(1, outcome))
    /\ WF_vars(RefreshResume(1))
    /\ WF_vars(\E id \in 1..MaxRefreshes, ok \in BOOLEAN : DevTokenSettle(id, ok))

----------------------------------------------------------------------------
(* Properties *)

IsChart == chartData.type \in {"bar", "line", "pie"}
IsOn(e) == e.on
SelectedNow ==
    LET on == SelectSeq(chartFieldSelection.entries, IsOn)
    IN [i \in 1..Len(on) |-> on[i].col]
Without(seq, x) == LET keep(y) == y # x IN SelectSeq(seq, keep)
CategoryField == detected.categoryField.name
ValueFields == detected.valueFields
OriginalNames == [i \in 1..Len(chartData.series) |-> chartData.series[i].originalName]

\* C1: in every bar, line or pie ChartSpec each series' data is as long as
\* the categories, and both are as long as the rows of the query result
\* (zero rows included).
C1_SeriesAlignedWithCategories ==
    IsChart =>
        /\ Len(chartData.categories) = Len(queryResults.rows)
        /\ \A i \in 1..Len(chartData.series) :
              Len(chartData.series[i].data) = Len(chartData.categories)

C1_Witness ==
    /\ IsChart
    /\ Len(chartData.series) >= 2
    /\ Len(queryResults.rows) >= 3
    /\ \E i \in 1..Len(queryResults.rows) :
          IsNullish(resolveFieldValue(queryResults.rows[i], CategoryField))

SeriesMaxima == {SetMax(Range(chartData.series[i].data) \cup {0}) :
                    i \in 1..Len(chartData.series)}
RatioAbove(a, b, r) == (a \div b > r) \/ (a \div b = r /\ a % b > 0)

\* C3: useSeparateScale is true exactly when there are at least 2 series
\* and the largest per-series maximum divided by the smallest strictly
\* positive per-series maximum exceeds 20 (per-series maximum = max of the
\* data and 0); it is false with fewer than 2 series or no positive maximum.
C3_SeparateScaleIffRatioAbove20 ==
    IsChart =>
        (chartData.displayOptions["useSeparateScale"] <=>
            /\ Len(chartData.series) >= 2
            /\ \E m \in SeriesMaxima : m > 0
            /\ RatioAbove(SetMax(SeriesMaxima),
                          SetMin({m \in SeriesMaxima : m > 0}), 20))

C3_Witness ==
    /\ IsChart
    /\ Len(chartData.series) = 2
    /\ chartData.series[1].data = <<100, 9000>>
    /\ chartData.series[2].data = <<2, 3>>
    /\ chartData.displayOptions["useSeparateScale"]

KeysAtLevel(row, field, level) ==
    {i \in 1..Len(row) :
        CASE level = 1 -> row[i].k = field
          [] level = 2 -> toLowerCase(row[i].k) = toLowerCase(field)
          [] OTHER -> normalizeKey(row[i].k) = normalizeKey(field)}
FirstLevel(row, field) ==
    IF \E l \in 1..3 : KeysAtLevel(row, field, l) # {}
    THEN SetMin({l \in 1..3 : KeysAtLevel(row, field, l) # {}})
    ELSE 0

\* C4: resolveFieldValue returns the value of the first key matching at the
\* earliest of three levels (exact key, key equal ignoring case, key equal
\* after lower-casing and removing white space and underscores), and
\* undefined when no key matches or the row or the field is missing; so
\* Total_Sales resolves alike against totalsales, 'Total Sales' and
\* TOTAL_SALES.
C4_ResolveInLevelOrder ==
    resCalled =>
        IF ~IsRow(resRow) \/ resField = <<>> \/ FirstLevel(resRow, resField) = 0
        THEN resValue = UNDEF
        ELSE resValue =
                resRow[SetMin(KeysAtLevel(resRow, resField,
                                          FirstLevel(resRow, resField)))].v

C4_Witness ==
    /\ resCalled
    /\ resField = K_Total_Sales
    /\ Len(resRow) = 3
    /\ resRow[1].k = K_totalsales
    /\ resRow[2].k = K_TOTAL_SALES
    /\ resRow[3].k = K_Total_Sales
    /\ resValue = Num(3)

NumericFlags == detected.numeric
NonNumericAt == {i \in 1..Len(NumericFlags) : ~NumericFlags[i]}
RemoveAt(seq, i) == SubSeq(seq, 1, i - 1) \o SubSeq(seq, i + 1, Len(seq))

CellsOf(field) ==
    [i \in 1..Len(queryResults.rows) |-> resolveFieldValue(queryResults.rows[i], field)]
IsNumberOrParses(v) ==
    \/ v.t = "number"
    \/ v.t = "string" /\ ~parseFloatStr(v.s).nan
FirstCells(field, n) == SubSeq(CellsOf(field), 1, Min(n, Len(queryResults.rows)))

\* C6 as stated: each field is classified from its first 3 non-null values
\* in row order (null rows do not use up a sample).
C6_Original_FirstThreeNonNullSamples ==
    IsChart =>
        \A i \in 1..Len(SelectedNow) :
            NumericFlags[i] <=>
                LET notNull(v) == ~IsNullish(v)
                    samples == SelectSeq(CellsOf(SelectedNow[i]), notNull)
                IN \E j \in 1..Min(3, Len(samples)) : IsNumberOrParses(samples[j])

\* C6 as amended: the App.jsx classifier examines the first min(3, rows)
\* rows of each field, a null or undefined value among them is skipped but
\* uses up its row, and the field is numeric exactly when one of these
\* values is a number or parses as a float; the ReportsView / useCharts copy
\* examines the first row only.
C6_FirstThreeRowsExamined ==
    IsChart =>
        /\ \A i \in 1..Len(SelectedNow) :
              NumericFlags[i] <=>
                 \E v \in Range(FirstCells(SelectedNow[i], 3)) :
                     ~IsNullish(v) /\ IsNumberOrParses(v)
        /\ \A i \in 1..Len(SelectedNow) :
              detectedFirstRow.numeric[i] <=>
                 \E v \in Range(FirstCells(SelectedNow[i], 1)) :
                     ~IsNullish(v) /\ IsNumberOrParses(v)

C6_Witness ==
    /\ IsChart
    /\ Len(queryResults.rows) = 4
    /\ \E i \in 1..Len(SelectedNow) :
          /\ \A j \in 1..3 : IsNullish(CellsOf(SelectedNow[i])[j])
          /\ IsNumberOrParses(CellsOf(SelectedNow[i])[4])
          /\ ~NumericFlags[i]
    /\ \E i \in 1..Len(SelectedNow) :
          /\ IsNullish(CellsOf(SelectedNow[i])[1])
          /\ IsNumberOrParses(CellsOf(SelectedNow[i])[3])
          /\ NumericFlags[i]
          /\ ~detectedFirstRow.numeric[i]

C8_CellsCoercedToNumbers ==
    IsChart =>
        \A i \in 1..Len(chartData.series) :
            \A j \in 1..Len(queryResults.rows) :
                LET cell == CellsOf(chartData.series[i].originalName)[j]
                    out == chartData.series[i].data[j]
                IN /\ out \in Int
                   /\ cell.t = "number" => out = cell.n
                   /\ (cell.t = "string" /\ ~parseFloatStr(cell.s).nan) =>
                          out = parseFloatStr(cell.s).n
                   /\ (~IsNumberOrParses(cell)) => out = 0

C8_Witness ==
    /\ IsChart
    /\ \E i \in 1..Len(chartData.series) :
          LET cells == CellsOf(chartData.series[i].originalName)
              data == chartData.series[i].data
          IN /\ \E j \in 1..Len(cells) : cells[j] = Str(<<" ", "2", "x">>) /\ data[j] = 2
             /\ \E j \in 1..Len(cells) : cells[j] = NULL /\ data[j] = 0
             /\ \E j \in 1..Len(cells) : cells[j] = UNDEF /\ data[j] = 0
             /\ \E j \in 1..Len(cells) : cells[j] = Str(<<>>) /\ data[j] = 0

ConfiguredFormat(s) == Get(seriesFormats, s.originalName, "")

\* C9: in every non-table ChartSpec each series whose field has a format
\* configured finds that format under its display name, and each series
\* whose field has none finds no format, whatever the display-name
\* overrides are.
C9_FormatFollowsOriginalName ==
    IsChart =>
        \A i \in 1..Len(chartData.series) :
            LET s == chartData.series[i]
            IN IF ConfiguredFormat(s) # ""
               THEN Get(chartData.seriesFormats, s.name, "") = ConfiguredFormat(s)
               ELSE s.name \notin DOMAIN chartData.seriesFormats

\* C10: with chart type table and at least one field selected the result is
\* exactly {type: 'table', columns, rows}: columns the selected fields in
\* selection order, rows the query result's rows unmodified; the classifier
\* does not run.
C10_TableShortCircuit ==
    (queryResults.data /\ chartTypeSelection = "table" /\ Len(SelectedNow) > 0) =>
        /\ DOMAIN chartData = {"type", "columns", "rows"}
        /\ chartData.type = "table"
        /\ chartData.columns = SelectedNow
        /\ chartData.rows = queryResults.rows
        /\ detected = NotDetected

C10_Witness ==
    /\ chartData.type = "table"
    /\ Len(chartData.columns) = 2
    /\ Len(chartData.rows) = 2
    /\ \A i \in 1..2 : Len(chartData.rows[i]) > Len(chartData.columns)

ChartSpecKeys == {"type", "categories", "series", "xLabel", "yLabel",
                  "seriesFormats", "displayOptions"}
IsCompleteChartSpec(cd) ==
    \/ cd.type = "table" /\ DOMAIN cd = {"type", "columns", "rows"}
    \/ cd.type \in {"bar", "line", "pie"} /\ DOMAIN cd = ChartSpecKeys

\* C11: once the report is rendered, buildChartData returns null exactly
\* when there is no query result data or no selection flag is true; with
\* result data and at least one selected field it returns a complete
\* ChartSpec of the chosen chart type (bar when none is chosen), zero rows
\* included, so the null behind "if (!categoryField)" is never the outcome.
C11_NullIffNoDataOrNoSelection ==
    /\ chartData = NoChart <=> (~queryResults.data \/ Len(SelectedNow) = 0)
    /\ (queryResults.data /\ Len(SelectedNow) > 0) =>
          /\ IsCompleteChartSpec(chartData)
          /\ chartData.type = ChartTypeOrBar(chartTypeSelection)

\* C12: for every ChartSpec rendered as a bar chart the renderer's scaling
\* mode is the ChartSpec's displayOptions.useSeparateScale: each bar's
\* value is divided by its series' own maximum when the flag is true and by
\* the maximum shared by all series when it is false.
C12_RendererScaleFollowsFlag ==
    rendered.kind = "bar" =>
        /\ rendered.useSeparateScale <=> chartData.displayOptions["useSeparateScale"]
        /\ \A si \in 1..Len(chartData.series) :
              rendered.denom[si] =
                 IF chartData.displayOptions["useSeparateScale"]
                 THEN seriesMaxValue(chartData.series[si].data)
                 ELSE sharedMax(chartData.series)

IsNotDot(c) == c # "."
\* The number of tenths a percentage string such as 98.9 stands for.
Tenths(str) == parseFloatStr(SelectSeq(str, IsNotDot)).n
IsDecimalString(str) ==
    /\ Len(str) >= 3
    /\ str[Len(str) - 1] = "."
    /\ \A i \in 1..Len(str) :
          \/ IsDigit(str[i])
          \/ i = Len(str) - 1
          \/ i = 1 /\ str[i] = "-"
FirstSeriesData == IF Len(chartData.series) > 0 THEN chartData.series[1].data ELSE <<>>

\* C13: in pie mode there is one slice per category, computed from
\* series[0] alone; its percentage is its value divided by the sum of
\* series[0].data (to one decimal); when that sum is 0 or there is no series
\* every slice reports 0.0, and rendering does not fail or yield NaN.
C13_PieSlicesOfFirstSeries ==
    chartData.type = "pie" =>
        /\ rendered.kind = "pie"
        /\ Len(rendered.slices) = Len(chartData.categories)
        /\ \A idx \in 1..Len(rendered.slices) :
              LET p == rendered.slices[idx].pct
                  sum == SumSeq(FirstSeriesData)
              IN /\ IsDecimalString(p)
                 /\ IF sum = 0 THEN p = <<"0", ".", "0">>
                    ELSE 2 * Abs(Tenths(p) * sum - 1000 * FirstSeriesData[idx]) <= Abs(sum)

C13_Witness ==
    /\ rendered.kind = "pie"
    /\ Len(chartData.series) = 2
    /\ SumSeq(chartData.series[1].data) = 0
    /\ SumSeq(chartData.series[2].data) > 0
    /\ Len(rendered.slices) > 0
    /\ \A idx \in 1..Len(rendered.slices) : rendered.slices[idx].pct = <<"0", ".", "0">>

\* C14: for every table ChartSpec produced by buildChartData (rows are
\* column-to-value mappings) the renderer completes without error and shows
\* a header made of the columns and a body with one row per entry of rows.
C14_TableRendered ==
    chartData.type = "table" =>
        /\ rendered.kind = "table"
        /\ rendered.header = chartData.columns
        /\ Len(rendered.body) = Len(chartData.rows)

\* The type and the decimals a format argument names (-1: none given).
FormatTable ==
    {[fmt |-> UNDEF, type |-> S_number, given |-> 0 - 1]} \cup
    {[fmt |-> Str(ty), type |-> ty, given |-> 0 - 1] : ty \in FormatTypes} \cup
    {[fmt |-> Str(ty \o <<":">> \o NatToStr(d)), type |-> ty, given |-> d] :
        ty \in FormatTypes, d \in DecimalsPool}
FormatEntry == CHOOSE e \in FormatTable : e.fmt = fmtFmt
ExpectedDecimals ==
    IF FormatEntry.given >= 0 THEN FormatEntry.given
    ELSE IF FormatEntry.type = S_percentage THEN 1 ELSE 0
DotAt(str) == FindIndex({i \in 1..Len(str) : str[i] = "."})
IntegerPart(str) ==
    LET cut == IF DotAt(str) = 0 THEN str ELSE SubSeq(str, 1, DotAt(str) - 1)
    IN SelectSeq(cut, IsDigit)
FractionPart(str) ==
    IF DotAt(str) = 0 THEN <<>>
    ELSE SelectSeq(SubSeq(str, DotAt(str) + 1, Len(str)), IsDigit)

\* C15: formatValue reads '<type>[:<decimals>]': a missing format is
\* number; the decimals are 0 for number, 0 for currency and 1 for
\* percentage when none are given and the given integer otherwise; a
\* percentage is the unscaled value followed by '%'; a non-finite input is
\* returned unchanged whatever the format.
C15_FormatValueDecimals ==
    fmtCalled =>
        IF ~NumberIsFinite(fmtVal) THEN fmtOut = fmtVal
        ELSE /\ fmtOut.t = "string"
             /\ Len(FractionPart(fmtOut.s)) = ExpectedDecimals
             /\ (DotAt(fmtOut.s) # 0) <=> (ExpectedDecimals > 0)
             /\ DigitsValue(IntegerPart(fmtOut.s), 1, Len(IntegerPart(fmtOut.s)) + 1)
                   = Abs(fmtVal.n)
             /\ (fmtOut.s[1] = "-") <=> (fmtVal.n < 0)
             /\ (fmtOut.s[Len(fmtOut.s)] = "%") <=> (FormatEntry.type = S_percentage)
             /\ (\E i \in 1..Len(fmtOut.s) : fmtOut.s[i] = "$")
                   <=> (FormatEntry.type = S_currency)

C15_Witness ==
    /\ fmtCalled
    /\ fmtVal = Num(85)
    /\ fmtFmt = Str(S_percentage)
    /\ fmtOut = Str(<<"8", "5", ".", "0", "%">>)

ConfigParts == <<chartFieldSelection, chartTypeSelection, chartAxisLabels,
                 chartDisplayOptions, seriesFormats, seriesDisplayNames>>
ConfigKeys == {"selectedFields", "chartType", "axisLabels", "displayOptions",
               "seriesFormats", "seriesDisplayNames"}
CurrentConfig ==
    [selectedFields |-> chartFieldSelection.entries,
     chartType |-> IF chartTypeSelection = "" THEN "bar" ELSE chartTypeSelection,
     axisLabels |-> chartAxisLabels,
     displayOptions |-> chartDisplayOptions,
     seriesFormats |-> seriesFormats,
     seriesDisplayNames |-> seriesDisplayNames]

\* C16 as stated: whenever one of the six chart settings changes, the
\* ChartConfig is written back to the store (the store then holds the new
\* configuration), each write being a full replace.
C16_Original_WrittenOnEveryChange ==
    [][ConfigParts' # ConfigParts => storedChartConfig' = CurrentConfig']_vars

\* C16 as amended: a change of a chart setting writes nothing by itself;
\* the store changes only when the report is saved, and then it is replaced
\* as a whole by all six parts of the configuration current at the save.
C16_WritesAreFullReplace ==
    [][storedChartConfig' # storedChartConfig =>
          /\ editingReportId /\ ~editingReportId'
          /\ DOMAIN storedChartConfig' = ConfigKeys
          /\ storedChartConfig' = CurrentConfig]_vars

C16_Witness ==
    /\ storedChartConfig # NoConfig
    /\ storedChartConfig.chartType = "pie"
    /\ storedChartConfig.axisLabels # EmptyMap
    /\ storedChartConfig.seriesFormats # EmptyMap
    /\ storedChartConfig.seriesDisplayNames # EmptyMap
    /\ CurrentConfig # storedChartConfig

\* The step just taken was handleSubmit and it sent a create or update
\* request which the server accepted (SubmitAccepted) or rejected
\* (SubmitRejected).
SubmitSent ==
    /\ event'.handler = "handleSubmit"
    /\ event'.request.kind \in {"create", "update"}
SubmitAccepted == SubmitSent /\ event'.accepted
SubmitRejected == SubmitSent /\ ~event'.accepted

\* the schedule as the server holds it after the accepted request
SavedSchedule ==
    [id |-> IF event'.request.kind = "create" THEN nextScheduleId
            ELSE event'.request.id,
     recipients |-> event'.request.recipients]

FormIsReset ==
    /\ formData' = DefaultFormData
    /\ selectedSchedule' = NoSchedule

SubmitRejectedLeavesForm ==
    SubmitRejected =>
        /\ view' = view
        /\ view' \in FormViews
        /\ event'.reload = "none"
        /\ schedules' = schedules

\* C17 as stated: after an accepted create or update the view is 'list', the
\* form and selectedSchedule are reset and the list shows what the server
\* holds, the saved schedule included; after a rejected one the view stays
\* on the form and the list is not reloaded.
C17_Original_ListShowsSaved ==
    [][ /\ SubmitAccepted =>
            /\ view' = "list"
            /\ FormIsReset
            /\ shownSchedules' = serverSchedules'
            /\ SavedSchedule \in Range(shownSchedules')
        /\ SubmitRejectedLeavesForm ]_vars

\* C17, amended: after an accepted create or update the view is 'list', the
\* form and selectedSchedule are reset and a reload of the list is issued;
\* if the reload succeeds the list is what the server holds and contains the
\* saved schedule, if it fails the list is left as it was and the load error
\* is set.  After a rejected one the view stays on the form, the form and
\* selectedSchedule are kept, and the list is not reloaded.
C17_AcceptedResetsAndReloads ==
    [][ /\ SubmitAccepted =>
            /\ view' = "list"
            /\ FormIsReset
            /\ event'.reload \in {"ok", "failed"}
            /\ event'.reload = "ok" =>
                   /\ schedules' = serverSchedules'
                   /\ SavedSchedule \in Range(schedules')
                   /\ ~loadError'
            /\ event'.reload = "failed" =>
                   /\ schedules' = schedules
                   /\ loadError'
        /\ SubmitRejectedLeavesForm
        /\ SubmitRejected =>
            /\ formData' = formData
            /\ selectedSchedule' = selectedSchedule ]_vars

\* an accepted update whose reload succeeded: the list shows the schedule
\* with its new recipients
C17_Witness ==
    /\ event.handler = "handleSubmit"
    /\ event.request.kind = "update"
    /\ event.accepted
    /\ event.reload = "ok"
    /\ view = "list"
    /\ [id |-> event.request.id, recipients |-> event.request.recipients]
           \in Range(schedules)
    /\ Len(event.request.recipients) = 2

\* C18: pressing Cancel or Back to List in the create or edit view sets the
\* view to 'list' and resets the form (form data and selectedSchedule), sends
\* no create, update or delete request, and leaves the list of schedules, in
\* the modal and on the server, unchanged.
C18_CancelOnlyLeavesTheForm ==
    [][ event'.handler = "cancel" =>
            /\ view \in FormViews
            /\ view' = "list"
            /\ FormIsReset
            /\ event'.request = NoRequest
            /\ event'.reload = "none"
            /\ schedules' = schedules
            /\ serverSchedules' = serverSchedules
            /\ nextScheduleId' = nextScheduleId ]_vars

\* Cancel was pressed with schedules in the list
C18_Witness ==
    /\ event.handler = "cancel"
    /\ view = "list"
    /\ formData = DefaultFormData
    /\ selectedSchedule = NoSchedule
    /\ Len(schedules) > 0

\* a recipient entry that is a non-blank string containing '@'
IsNonBlank(r) == \E i \in 1..Len(r) : r[i] # " "
ContainsAt(r) == \E i \in 1..Len(r) : r[i] = "@"
IsValidEntry(r) == IsNonBlank(r) /\ ContainsAt(r)

\* the valid entries of a recipient list, in their order
RECURSIVE ValidEntries(_)
ValidEntries(recipients) ==
    IF recipients = <<>> THEN <<>>
    ELSE (IF IsValidEntry(Head(recipients)) THEN <<Head(recipients)>> ELSE <<>>)
         \o ValidEntries(Tail(recipients))

\* C19: submitting the form when no recipient entry is a non-blank string
\* containing '@' sends no create or update request, reports an error, and
\* leaves the view and the form data unchanged; when at least one entry is
\* valid, a request is sent whose recipients are exactly the valid entries.
C19_OnlyValidRecipientsAreSent ==
    [][ event'.handler = "handleSubmit" =>
            IF ValidEntries(formData.recipients) = <<>>
            THEN /\ event'.request = NoRequest
                 /\ event'.toast = "error"
                 /\ view' = view
                 /\ formData' = formData
                 /\ serverSchedules' = serverSchedules
            ELSE /\ event'.request.kind \in {"create", "update"}
                 /\ event'.request.recipients = ValidEntries(formData.recipients)
                 /\ event'.accepted =>
                        SavedSchedule.recipients = ValidEntries(formData.recipients)
                        /\ SavedSchedule \in Range(serverSchedules') ]_vars

\* a submission of a form that holds a text without '@' and an empty entry
C19_Witness ==
    /\ event.handler = "handleSubmit"
    /\ event.request = NoRequest
    /\ event.toast = "error"
    /\ view = "create"
    /\ formData.recipients = <<R_noat, <<>> >>

\* a submission of a form with an invalid and a valid entry sent the valid one
C19_WitnessMixed ==
    /\ event.handler = "handleSubmit"
    /\ event.request.kind = "create"
    /\ ~event.accepted
    /\ formData.recipients = <<R_noat, R_valid>>
    /\ event.request.recipients = <<R_valid>>

\* The step just taken was handleDelete and it sent the delete request.
DeleteSent ==
    /\ event'.handler = "handleDelete"
    /\ event'.request.kind = "delete"

AllBars == {rendered.bars[idx][si] :
               <<idx, si>> \in {<<i, j>> \in (1..MaxPoints) \X (1..MaxPoints) :
                                   i <= Len(rendered.bars) /\ j <= Len(rendered.bars[i])}}
NonNegativeData ==
    \A si \in 1..Len(chartData.series) :
        \A idx \in 1..Len(chartData.series[si].data) : chartData.series[si].data[idx] >= 0

\* C22: every denominator the renderer divides by is at least 1, the own or
\* shared maximum of a bar and the own maximum of a line, for series of any
\* sign and for no series at all; for non-negative data every bar height
\* fraction numVal / denom lies between 0 and 1.
C22_DenominatorsAtLeastOne ==
    /\ rendered.kind = "bar" =>
          /\ \A si \in 1..Len(rendered.denom) : rendered.denom[si] >= 1
          /\ \A bar \in AllBars : bar.denom >= 1
          /\ NonNegativeData =>
                \A bar \in AllBars : 0 <= bar.numVal /\ bar.numVal <= bar.denom
    /\ rendered.kind = "line" =>
          \A si \in 1..Len(rendered.lines) : rendered.lines[si].max >= 1

\* a bar chart of an all-negative and a large series, scaled separately
C22_Witness ==
    /\ rendered.kind = "bar"
    /\ rendered.useSeparateScale
    /\ Len(chartData.series) = 2
    /\ chartData.series[1].data = <<0 - 5, 0 - 5>>
    /\ chartData.series[2].data = <<3, 100>>

\* a line chart of an all-zero series
C22_WitnessLine ==
    /\ rendered.kind = "line"
    /\ Len(chartData.series) >= 1
    /\ chartData.series[1].data = <<0, 0>>

\* the display-name override configured for a field: its entry in
\* seriesDisplayNames, when there is one and it is not the empty text
HasOverride(field) ==
    field \in DOMAIN seriesDisplayNames /\ seriesDisplayNames[field] # <<>>
OverrideOf(field) == seriesDisplayNames[field]

\* C23: a bar, line or pie ChartSpec has one series per value field, in the
\* order of valueFields; each series' originalName is the raw field name and
\* its name is the display-name override of that field when one is
\* configured, the raw field name otherwise.
C23_SeriesFollowValueFields ==
    chartData.type \in {"bar", "line", "pie"} =>
        /\ Len(chartData.series) = Len(detected.valueFields)
        /\ \A i \in 1..Len(chartData.series) :
              /\ chartData.series[i].originalName = detected.valueFields[i]
              /\ chartData.series[i].name =
                    IF HasOverride(detected.valueFields[i])
                    THEN OverrideOf(detected.valueFields[i])
                    ELSE detected.valueFields[i]

\* two series, the first under its override, the second under its raw
\* name (its override was emptied again)
C23_Witness ==
    /\ chartData.type = "bar"
    /\ detected.valueFields = <<F_ts, F_p>>
    /\ chartData.series[1].name = <<"X">>
    /\ chartData.series[2].name = F_p
    /\ F_p \in DOMAIN seriesDisplayNames
    /\ seriesDisplayNames[F_p] = <<>>

PassedThroughOptions == {"showValuesOnBars", "rotateCategoryLabels"}

\* C24: the useSeparateScale of a ChartSpec's displayOptions is the value
\* derived from the series of that same ChartSpec, also when the display
\* options of the report hold a useSeparateScale entry of their own;
\* showValuesOnBars and rotateCategoryLabels are passed through unchanged
\* (present with the same value, or absent as in the state).
C24_SeparateScaleIsDerived ==
    chartData.type \in {"bar", "line", "pie"} =>
        /\ "useSeparateScale" \in DOMAIN chartData.displayOptions
        /\ chartData.displayOptions["useSeparateScale"] = SeparateScale(chartData.series)
        /\ \A k \in PassedThroughOptions :
              /\ k \in DOMAIN chartData.displayOptions <=> k \in DOMAIN chartDisplayOptions
              /\ k \in DOMAIN chartDisplayOptions =>
                    chartData.displayOptions[k] = chartDisplayOptions[k]

\* the state holds useSeparateScale = false and showValuesOnBars = true,
\* the series differ by more than the ratio, and the output says true
C24_Witness ==
    /\ chartData.type = "bar"
    /\ "useSeparateScale" \in DOMAIN chartDisplayOptions
    /\ ~chartDisplayOptions["useSeparateScale"]
    /\ "showValuesOnBars" \in DOMAIN chartDisplayOptions
    /\ chartDisplayOptions["showValuesOnBars"]
    /\ Len(chartData.series) = 2
    /\ chartData.displayOptions["useSeparateScale"]

\* C25: for the same selected fields and rows, the series-configuration
\* panel and the buildChartData copies of ReportsView and useCharts (which
\* classify by the first row) compute the same categoryField and the same
\* valueFields as buildChartData of App does for the rendered chart.
C25_PanelMatchesChart ==
    IsChart =>
        /\ detectedFirstRow.categoryField = detected.categoryField
        /\ detectedFirstRow.valueFields = detected.valueFields

\* the step just taken finished a refreshReports call
RefreshFinished == refreshPending /\ ~refreshPending'

\* C26: a chart setting the user changed while a refreshReports call was
\* waiting for the server's answer is still in effect after that call has
\* finished, when the answer carries no chartConfig value for that setting.
C26_ChangesSurviveRefresh ==
    [][ RefreshFinished =>
          /\ (chartFieldSelection # refreshSnapshot.chartFieldSelection
                /\ ~Supplies(storedChartConfig, "selectedFields"))
             => chartFieldSelection' = chartFieldSelection
          /\ (chartTypeSelection # refreshSnapshot.chartTypeSelection
                /\ ~Supplies(storedChartConfig, "chartType"))
             => chartTypeSelection' = chartTypeSelection
          /\ (chartAxisLabels # refreshSnapshot.chartAxisLabels
                /\ ~Supplies(storedChartConfig, "axisLabels"))
             => chartAxisLabels' = chartAxisLabels
          /\ (chartDisplayOptions # refreshSnapshot.chartDisplayOptions
                /\ ~Supplies(storedChartConfig, "displayOptions"))
             => chartDisplayOptions' = chartDisplayOptions
          /\ (seriesFormats # refreshSnapshot.seriesFormats
                /\ ~Supplies(storedChartConfig, "seriesFormats"))
             => seriesFormats' = seriesFormats
          /\ (seriesDisplayNames # refreshSnapshot.seriesDisplayNames
                /\ ~Supplies(storedChartConfig, "seriesDisplayNames"))
             => seriesDisplayNames' = seriesDisplayNames ]_vars


\* C21: in every state that handleLogout leaves, the role is null, roles is
\* empty, the acting role is empty, and localStorage holds none of jwt,
\* role, roles, acting_role, clientId, selected_tenant_id and demo_jwt.
C21_LogoutClearsSession ==
    authEvent = "handleLogout" =>
        /\ role = NoItem
        /\ roles = <<>>
        /\ actingRole = ""
        /\ \A k \in {"jwt", "role", "roles", "acting_role", "clientId",
                     "selected_tenant_id", "demo_jwt"} :
              localStorage[k] = NoItem

\* handleLogout ran after the application had mounted with a session
C21_Witness ==
    /\ authEvent = "handleLogout"
    /\ intervalInstalled
    /\ now > 0

\* the same for the roles of one set
ExpiredSessionIsLoggedOut(rolesAtMount) ==
    \A r \in rolesAtMount :
        (/\ appMounted
         /\ mountSession = [role |-> r]
         /\ isSessionExpired(localStorage, now)) ~> (role = NoItem)

\* C27: for every role, once the real JWT that was stored when the
\* application mounted has expired, the user is eventually logged out by
\* the periodic check, whatever else happens.
C27_ExpiredSessionIsLoggedOut ==
    ExpiredSessionIsLoggedOut(RolePool)

\* the roles for which the mount effect reaches setInterval
T_NonManagerIsLoggedOut == ExpiredSessionIsLoggedOut(RolePool \ {"manager"})


LastStatus(call) == call.statuses[Len(call.statuses)]

\* what holds of one call of request() at every moment
CallIsBounded(c) ==
    LET call == calls[c] IN
    /\ call.fetches <= 2
    /\ call.devFetches <= 1
    /\ Len(call.statuses) <= 2
    /\ call.settled # "rejected"
    /\ call.attempt = 1 =>
          /\ call.statuses[1] = "401"
          /\ DEV
          /\ call.path # "/dev/token"
    /\ call.pc = "done" =>
          /\ call.settled = "resolved"
          /\ call.result # NoValue
          /\ (call.statuses[1] = "401" /\ DEV /\ call.path # "/dev/token")
                => Len(call.statuses) = 2
          /\ LastStatus(call) = "401" => call.result = ErrorValue("HTTP 401")
          /\ LastStatus(call) = "throws" => DOMAIN call.result = {"error"}

\* a call of request() returns for a 401 it does not retry
Returns401(c) ==
    /\ calls[c].pc = "fetching"
    /\ calls'[c].pc = "done"
    /\ LastStatus(calls'[c]) = "401"

\* a call of request() sends its second fetch
Retries(c) == calls[c].attempt = 0 /\ calls'[c].attempt = 1

JoinsRefresh(c) ==
    /\ calls[c].pc = "fetching"
    /\ calls'[c].pc = "refreshing"
    /\ calls'[c].devFetches = 0

\* the promise of a refresh settles
RefreshSettles(id) ==
    /\ id \in DOMAIN refreshPromises
    /\ ~refreshPromises[id].settled
    /\ refreshPromises'[id].settled

\* C29: in development mode at most one dev-token fetch is in flight; a
\* call that arrives while a refresh is in progress starts none and waits
\* for the promise of that refresh; the marker is set only while the call that
\* started the refresh still waits for it, so a later call starts a new
\* one; and when a refresh settles a demo token is stored.
C29_OneRefreshAtATime ==
    /\ [](/\ devFetchesInFlight <= 1
          /\ refreshing = 0 => devFetchesInFlight = 0
          /\ refreshing # 0 =>
                \E c \in CallIds : /\ calls[c].devFetches = 1
                                   /\ calls[c].pc = "refreshing"
                                   /\ calls[c].awaiting = refreshing)
    /\ [][/\ \A c \in CallIds :
                JoinsRefresh(c) => /\ refreshing # 0
                                   /\ calls'[c].awaiting = refreshing
                                   /\ refreshPromises' = refreshPromises
          /\ \A id \in 1..MaxRefreshes :
                RefreshSettles(id) => localStorage'["demo_jwt"] # NoItem]_vars

\* one call was retried after a refresh it had joined, and a later call
\* started a second refresh
C29_Witness ==
    /\ Len(refreshPromises) = 2
    /\ refreshing = 2
    /\ \E c \in CallIds : calls[c].attempt = 1 /\ calls[c].devFetches = 0

====
